---- MODULE Spec2Model ----
(***************************************************************************)
(* Model of AutonomyController (src/src/autonomy/autonomy-controller.ts):  *)
(* the decision validation pipeline, the approval workflow with its        *)
(* timeout, the escalation engine, the autonomy level state machine and    *)
(* the spending / interaction ledgers.                                     *)
(*                                                                         *)
(* The methods of the class are operators on a record `s` that holds the   *)
(* fields of `this` (plus the clock read by Date.now() and the events      *)
(* emitted during the current step).  Each action of the model is one      *)
(* synchronous run of JavaScript: a call up to its first `await`, the      *)
(* continuation of a call after an `await` (a microtask), a timer          *)
(* callback, or a synchronous operator call.                               *)
(***************************************************************************)
EXTENDS Integers, Sequences, FiniteSets, TLC

VARIABLES
    config,             \* this.config
    currentSpending,    \* this.currentSpending   : currency -> spent today
    interactionCounts,  \* this.interactionCounts : <<platform, hour>> -> count
    pendingApprovals,   \* keys of this.pendingApprovals
    requests,           \* the ApprovalRequest objects ever created, by id
    timers,             \* ids whose setTimeout callback has not run yet
    violationHistory,   \* this.violationHistory
    decisionHistory,    \* this.decisionHistory
    metrics,            \* this.metrics
    listeners,          \* the events that have a listener registered with on()
    calls,              \* validateDecision invocations, by call number
    microtasks,         \* FIFO queue of calls suspended at an await
    now,                \* the clock read by Date.now()
    lastOp              \* the step just taken: operation, level before it, argument,
                        \* outcome, events emitted

vars == <<config, currentSpending, interactionCounts, pendingApprovals, requests,
          timers, violationHistory, decisionHistory, metrics, listeners, calls,
          microtasks, now, lastOp>>

-----------------------------------------------------------------------------
(* Bounds of the model *)

MaxTime == 1
MaxRequests == 2
MaxLiveRequests == 1
MaxRaceCalls == 3
MaxLadderCalls == 5
MaxTypeCalls == 2
MaxControlCalls == 1
MaxControlTime == 1
MaxTriggers == 3
MaxSpendingCalls == 2
MaxRateCalls == 3
MaxContentCalls == 2
MaxRiskCalls == 2
MaxEscalationCalls == 2
MaxFaultCalls == 2
MaxLevelCalls == 1
MaxOrderCalls == 2
MaxPaymentCalls == 2
MaxSequentialCalls == 2
MaxSequentialRequests == 1
MaxAgentCalls == 2

-----------------------------------------------------------------------------
(* Enumerations, lines 3-102 *)

RESTRICTED == "restricted"
SUPERVISED == "supervised"
SEMI_AUTONOMOUS == "semi"
AUTONOMOUS == "autonomous"
AutonomyLevel == {RESTRICTED, SUPERVISED, SEMI_AUTONOMOUS, AUTONOMOUS}

CONTENT_CREATION == "content_creation"
FINANCIAL_TRANSACTION == "financial_transaction"
PLATFORM_INTERACTION == "platform_interaction"
LEARNING_ADAPTATION == "learning_adaptation"
SERVICE_OFFERING == "service_offering"
GOVERNANCE_PARTICIPATION == "governance_participation"
EMERGENCY_ACTION == "emergency_action"
DecisionType == {CONTENT_CREATION, FINANCIAL_TRANSACTION, PLATFORM_INTERACTION,
                 LEARNING_ADAPTATION, SERVICE_OFFERING, GOVERNANCE_PARTICIPATION,
                 EMERGENCY_ACTION}

RiskLevel == {"low", "medium", "high", "critical"}

SPENDING_THRESHOLD == "spending_threshold"
ERROR_RATE == "error_rate"
TriggerType == {SPENDING_THRESHOLD, "content_flag", "reputation_drop", ERROR_RATE,
                "suspicious_activity", "manual_trigger"}

PAUSE_AGENT == "pause_agent"
REQUEST_APPROVAL == "request_approval"
NOTIFY_OWNER == "notify_owner"
REDUCE_AUTONOMY == "reduce_autonomy"
LOG_INCIDENT == "log_incident"
EscalationAction == {PAUSE_AGENT, REQUEST_APPROVAL, NOTIFY_OWNER, REDUCE_AUTONOMY,
                     LOG_INCIDENT}

\* An absent optional field (context.currency, context.platform) and the
\* empty string are both falsy in the code; the model writes both as "".
Currencies == {"SEI", "USDC"}
Platforms == {"default", "twitter"}

\* A description is a sequence of one-character strings.
ToLowerChar(c) ==
    CASE c = "S" -> "s" [] c = "P" -> "p" [] c = "A" -> "a" [] c = "M" -> "m"
      [] c = "H" -> "h" [] c = "I" -> "i"
      [] OTHER -> c

toLowerCase(str) == [i \in 1..Len(str) |-> ToLowerChar(str[i])]

includes(str, sub) ==
    \E i \in 0..(Len(str) - Len(sub)) :
        \A j \in 1..Len(sub) : str[i + j] = sub[j]

\* A Decision.  estimated_cost 0 stands for an absent cost too: the code only
\* tests it for truthiness or reads it as `estimated_cost || 0`.
MkDecision(type, risk, cost, currency, platform, description) ==
    [type |-> type, risk_level |-> risk, estimated_cost |-> cost,
     currency |-> currency, platform |-> platform, description |-> description]

NoDecision == MkDecision("", "", 0, "", "", << >>)

-----------------------------------------------------------------------------
(* The record of the fields of `this` that the methods work on *)

Self ==
    [config |-> config, currentSpending |-> currentSpending,
     interactionCounts |-> interactionCounts, pendingApprovals |-> pendingApprovals,
     requests |-> requests, timers |-> timers, violationHistory |-> violationHistory,
     decisionHistory |-> decisionHistory, metrics |-> metrics,
     listeners |-> listeners, now |-> now, events |-> << >>]

\* emit(name, payload): the model keeps the event name and the request id
\* (0 when the payload has none).
emit(s, name, id) == [s EXCEPT !.events = Append(@, <<name, id>>)]

\* Lines 617-628.  escalation_required is "true", "false" or "undefined";
\* approval_timeout is <<t>> or << >> for undefined.
createValidationResult(s, approved, reason, escalation_required) ==
    [approved |-> approved, reason |-> reason,
     escalation_required |-> escalation_required,
     approval_timeout |-> IF escalation_required = "true"
                          THEN <<s.config.approval_timeout>> ELSE << >>]

NoResult == [approved |-> FALSE, reason |-> "", escalation_required |-> "undefined",
             approval_timeout |-> << >>]

-----------------------------------------------------------------------------
(* Private helpers of the class *)

\* isDecisionTypeAllowed with no type excluded at level semi.
isDecisionTypeAllowed_SemiAll(s, type) ==
    CASE s.config.level = RESTRICTED -> type \in {LEARNING_ADAPTATION}
      [] s.config.level = SUPERVISED -> type \in {LEARNING_ADAPTATION, PLATFORM_INTERACTION}
      [] s.config.level = SEMI_AUTONOMOUS -> TRUE
      [] s.config.level = AUTONOMOUS -> TRUE
      [] OTHER -> FALSE

\* isDecisionTypeAllowed with the list of the supervised case used for
\* restricted too.
isDecisionTypeAllowed_Restricted(s, type) ==
    CASE s.config.level = RESTRICTED -> type \in {LEARNING_ADAPTATION, PLATFORM_INTERACTION}
      [] s.config.level = SUPERVISED -> type \in {LEARNING_ADAPTATION, PLATFORM_INTERACTION}
      [] s.config.level = SEMI_AUTONOMOUS -> type # FINANCIAL_TRANSACTION
      [] s.config.level = AUTONOMOUS -> TRUE
      [] OTHER -> FALSE

\* Lines 393-413.
isDecisionTypeAllowed(s, type) ==
    CASE s.config.level = RESTRICTED -> type \in {LEARNING_ADAPTATION}
      [] s.config.level = SUPERVISED -> type \in {LEARNING_ADAPTATION, PLATFORM_INTERACTION}
      [] s.config.level = SEMI_AUTONOMOUS -> type # FINANCIAL_TRANSACTION
      [] s.config.level = AUTONOMOUS -> TRUE
      [] OTHER -> FALSE

\* validateSpending with the approval threshold tested before the daily limit.
validateSpending_ThresholdFirst(s, decision) ==
    LET cost == decision.estimated_cost
        currency == IF decision.currency # "" THEN decision.currency ELSE "SEI"
        dailySpent == s.currentSpending[currency]
    IN  IF cost > s.config.spending_limits.perTransactionLimit
        THEN createValidationResult(s, FALSE, "per_transaction_limit", "true")
        ELSE IF cost > s.config.spending_limits.approvalRequiredAbove
        THEN createValidationResult(s, FALSE, "approval_threshold", "true")
        ELSE IF dailySpent + cost > s.config.spending_limits.dailyLimit
        THEN createValidationResult(s, FALSE, "daily_limit", "true")
        ELSE createValidationResult(s, TRUE, "", "undefined")

\* Lines 415-448.  `currency || 'SEI'`.
validateSpending(s, decision) ==
    LET cost == decision.estimated_cost
        currency == IF decision.currency # "" THEN decision.currency ELSE "SEI"
        dailySpent == s.currentSpending[currency]
    IN  IF cost > s.config.spending_limits.perTransactionLimit
        THEN createValidationResult(s, FALSE, "per_transaction_limit", "true")
        ELSE IF dailySpent + cost > s.config.spending_limits.dailyLimit
        THEN createValidationResult(s, FALSE, "daily_limit", "true")
        ELSE IF cost > s.config.spending_limits.approvalRequiredAbove
        THEN createValidationResult(s, FALSE, "approval_threshold", "true")
        ELSE createValidationResult(s, TRUE, "", "undefined")

\* Math.floor(Date.now() / (60 * 60 * 1000))
HourOf(t) == t \div (60 * 60 * 1000)

\* Map.get(key) || 0 on interactionCounts
CountAt(counts, key) == IF key \in DOMAIN counts THEN counts[key] ELSE 0

\* Lines 450-464.  `platform || 'default'`.
validateInteractionLimits(s, decision) ==
    LET platform == IF decision.platform # "" THEN decision.platform ELSE "default"
        hourlyKey == <<platform, HourOf(s.now)>>
        hourlyCount == CountAt(s.interactionCounts, hourlyKey)
    IN  IF hourlyCount >= s.config.interaction_rules.max_posts_per_hour
        THEN createValidationResult(s, FALSE, "hourly_limit", "false")
        ELSE createValidationResult(s, TRUE, "", "undefined")

\* Lines 606-615.
recordViolation(s, violation) ==
    LET pushed == Append(s.violationHistory, violation)
        s1 == emit([s EXCEPT !.violationHistory = pushed,
                             !.metrics.violations = @ + 1],
                   "guardrail_violation", 0)
    IN  IF Len(pushed) > 1000
        THEN [s1 EXCEPT !.violationHistory = SubSeq(pushed, Len(pushed) - 499, Len(pushed))]
        ELSE s1

\* validateContent without the toLowerCase() of the description.
validateContent_CaseSensitive(s, decision) ==
    LET forbiddenTypes == s.config.interaction_rules.forbidden_content_types
        description == decision.description
    IN  IF \E i \in 1..Len(forbiddenTypes) :
                includes(description, toLowerCase(forbiddenTypes[i]))
        THEN [s |-> recordViolation(s, [type |-> "content_policy", severity |-> "error",
                                        action_taken |-> "blocked"]),
              r |-> createValidationResult(s, FALSE, "forbidden_content", "undefined")]
        ELSE [s |-> s, r |-> createValidationResult(s, TRUE, "", "undefined")]

\* Lines 466-489.  Returns the new state and the check's result.
validateContent(s, decision) ==
    LET forbiddenTypes == s.config.interaction_rules.forbidden_content_types
        description == toLowerCase(decision.description)
    IN  IF \E i \in 1..Len(forbiddenTypes) :
                includes(description, toLowerCase(forbiddenTypes[i]))
        THEN [s |-> recordViolation(s, [type |-> "content_policy", severity |-> "error",
                                        action_taken |-> "blocked"]),
              r |-> createValidationResult(s, FALSE, "forbidden_content", "undefined")]
        ELSE [s |-> s, r |-> createValidationResult(s, TRUE, "", "undefined")]

\* validateRiskLevel with the supervised case testing critical only.
validateRiskLevel_SupervisedHigh(s, decision) ==
    IF s.config.level = RESTRICTED /\ decision.risk_level # "low"
    THEN createValidationResult(s, FALSE, "risk_restricted", "true")
    ELSE IF s.config.level = SUPERVISED /\ decision.risk_level \in {"critical"}
    THEN createValidationResult(s, FALSE, "risk_supervised", "true")
    ELSE IF s.config.level = SEMI_AUTONOMOUS /\ decision.risk_level = "critical"
    THEN createValidationResult(s, FALSE, "risk_semi", "true")
    ELSE createValidationResult(s, TRUE, "", "undefined")

\* Lines 491-513.
validateRiskLevel(s, decision) ==
    IF s.config.level = RESTRICTED /\ decision.risk_level # "low"
    THEN createValidationResult(s, FALSE, "risk_restricted", "true")
    ELSE IF s.config.level = SUPERVISED /\ decision.risk_level \in {"high", "critical"}
    THEN createValidationResult(s, FALSE, "risk_supervised", "true")
    ELSE IF s.config.level = SEMI_AUTONOMOUS /\ decision.risk_level = "critical"
    THEN createValidationResult(s, FALSE, "risk_semi", "true")
    ELSE createValidationResult(s, TRUE, "", "undefined")

\* evaluateTrigger with the comparison of line 534 turned round.
evaluateTrigger_Reversed(trigger, decision) ==
    IF trigger.type = SPENDING_THRESHOLD
    THEN trigger.threshold > decision.estimated_cost
    ELSE FALSE

\* Lines 531-547.
evaluateTrigger(trigger, decision) ==
    IF trigger.type = SPENDING_THRESHOLD
    THEN decision.estimated_cost > trigger.threshold
    ELSE FALSE

\* Lines 658-666.
calculateInitialAutonomyScore(level) ==
    CASE level = RESTRICTED -> 25
      [] level = SUPERVISED -> 50
      [] level = SEMI_AUTONOMOUS -> 75
      [] level = AUTONOMOUS -> 100
      [] OTHER -> 50

Min(a, b) == IF a < b THEN a ELSE b
Max(a, b) == IF a > b THEN a ELSE b

\* Lines 668-677.  approval_rate is the fraction <<n, d>>.
calculateAutonomyScore(s) ==
    LET rate == s.metrics.approval_rate
        score == calculateInitialAutonomyScore(s.config.level)
                   + (IF 10 * rate[1] > 8 * rate[2] THEN 10 ELSE 0)
                   + (IF s.metrics.violations < 5 THEN 10 ELSE 0)
                   + (IF s.metrics.escalations = 0 THEN 5 ELSE 0)
    IN  Min(100, Max(0, score))

\* getReducedAutonomyLevel with the autonomous case returning supervised.
getReducedAutonomyLevel_Skip(s) ==
    CASE s.config.level = AUTONOMOUS -> SUPERVISED
      [] s.config.level = SEMI_AUTONOMOUS -> SUPERVISED
      [] s.config.level = SUPERVISED -> RESTRICTED
      [] OTHER -> RESTRICTED

\* getReducedAutonomyLevel with the default case returning supervised.
getReducedAutonomyLevel_Up(s) ==
    CASE s.config.level = AUTONOMOUS -> SEMI_AUTONOMOUS
      [] s.config.level = SEMI_AUTONOMOUS -> SUPERVISED
      [] s.config.level = SUPERVISED -> RESTRICTED
      [] OTHER -> SUPERVISED

\* Lines 679-686.
getReducedAutonomyLevel(s) ==
    CASE s.config.level = AUTONOMOUS -> SEMI_AUTONOMOUS
      [] s.config.level = SEMI_AUTONOMOUS -> SUPERVISED
      [] s.config.level = SUPERVISED -> RESTRICTED
      [] OTHER -> RESTRICTED

\* adjustLimitsForLevel with Math.max written for Math.min.
adjustLimitsForLevel_Max(s, level) ==
    CASE level = RESTRICTED ->
           [s EXCEPT !.config.spending_limits.dailyLimit = Max(10, @),
                     !.config.interaction_rules.max_posts_per_hour = Max(2, @)]
      [] level = SUPERVISED ->
           [s EXCEPT !.config.spending_limits.dailyLimit = Max(100, @),
                     !.config.interaction_rules.max_posts_per_hour = Max(10, @)]
      [] OTHER -> s

\* adjustLimitsForLevel without the case of level supervised.
adjustLimitsForLevel_RestrictedOnly(s, level) ==
    CASE level = RESTRICTED ->
           [s EXCEPT !.config.spending_limits.dailyLimit = Min(10, @),
                     !.config.interaction_rules.max_posts_per_hour = Min(2, @)]
      [] OTHER -> s

\* adjustLimitsForLevel giving level autonomous the default limits back.
adjustLimitsForLevel_Restoring(s, level) ==
    CASE level = RESTRICTED ->
           [s EXCEPT !.config.spending_limits.dailyLimit = Min(10, @),
                     !.config.interaction_rules.max_posts_per_hour = Min(2, @)]
      [] level = SUPERVISED ->
           [s EXCEPT !.config.spending_limits.dailyLimit = Min(100, @),
                     !.config.interaction_rules.max_posts_per_hour = Min(10, @)]
      [] level = AUTONOMOUS ->
           [s EXCEPT !.config.spending_limits.dailyLimit = Max(100, @),
                     !.config.interaction_rules.max_posts_per_hour = Max(20, @)]
      [] OTHER -> s

\* Lines 688-700.
adjustLimitsForLevel(s, level) ==
    CASE level = RESTRICTED ->
           [s EXCEPT !.config.spending_limits.dailyLimit = Min(10, @),
                     !.config.interaction_rules.max_posts_per_hour = Min(2, @)]
      [] level = SUPERVISED ->
           [s EXCEPT !.config.spending_limits.dailyLimit = Min(100, @),
                     !.config.interaction_rules.max_posts_per_hour = Min(10, @)]
      [] OTHER -> s

RECURSIVE GCD(_, _)
GCD(a, b) == IF b = 0 THEN a ELSE GCD(b, a % b)

\* The fraction n/d in lowest terms.
Fraction(n, d) == LET g == GCD(n, d) IN <<n \div g, d \div g>>

\* Lines 652-656, in exact arithmetic.
updateApprovalRate(s, approved) ==
    LET totalRequests == s.metrics.approvals_requested
        rate == s.metrics.approval_rate
        \* currentApprovals = rate * (totalRequests - 1), kept over rate[2]
        numerator == rate[1] * (totalRequests - 1) + (IF approved THEN rate[2] ELSE 0)
    IN  [s EXCEPT !.metrics.approval_rate = Fraction(numerator, rate[2] * totalRequests)]

\* Lines 587-604.
recordApprovedDecision(s, decision) ==
    LET s1 == IF decision.estimated_cost # 0 /\ decision.currency # ""
              THEN [s EXCEPT !.currentSpending[decision.currency] =
                                 @ + decision.estimated_cost]
              ELSE s
        hourlyKey == <<decision.platform, HourOf(s.now)>>
        s2 == IF decision.type = PLATFORM_INTERACTION /\ decision.platform # ""
              THEN [s1 EXCEPT !.interactionCounts =
                       [k \in DOMAIN @ \cup {hourlyKey} |->
                           IF k = hourlyKey THEN CountAt(@, k) + 1 ELSE @[k]]]
              ELSE s1
    IN  emit(s2, "decision_approved", 0)

-----------------------------------------------------------------------------
(* Public methods of the class *)

\* Lines 318-334.
updateAutonomyLevel(s, newLevel) ==
    LET s1 == adjustLimitsForLevel([s EXCEPT !.config.level = newLevel], newLevel)
        s2 == emit(s1, "autonomy_level_changed", 0)
    IN  [s2 EXCEPT !.metrics.autonomy_score = calculateAutonomyScore(s2)]

\* triggerEmergencyStop without `this.pendingApprovals.clear()`.
triggerEmergencyStop_NoClear(s) ==
    LET s1 == updateAutonomyLevel(s, RESTRICTED)
        ids == s1.pendingApprovals
    IN  emit([s1 EXCEPT !.requests = [id \in DOMAIN @ |->
                              IF id \in ids THEN [@[id] EXCEPT !.status = "denied"]
                              ELSE @[id]]],
             "emergency_stop_triggered", 0)

\* Lines 358-369.  The loop runs over every entry of the map.
triggerEmergencyStop(s) ==
    LET s1 == updateAutonomyLevel(s, RESTRICTED)
        ids == s1.pendingApprovals
        RECURSIVE Cancelled(_)
        Cancelled(todo) ==
            IF todo = {} THEN << >>
            ELSE LET id == CHOOSE i \in todo : \A j \in todo : i <= j
                 IN  <<(<<"approval_cancelled", id>>)>> \o Cancelled(todo \ {id})
        s2 == [s1 EXCEPT !.requests = [id \in DOMAIN @ |->
                              IF id \in ids THEN [@[id] EXCEPT !.status = "denied"]
                              ELSE @[id]],
                         !.events = @ \o Cancelled(ids),
                         !.pendingApprovals = {}]
    IN  emit(s2, "emergency_stop_triggered", 0)

\* Lines 255-286.  The id is fresh; the model numbers the requests 1, 2, ...
\* The timer callback is armed here and runs as the action TimeoutCallback.
requestApproval(s, decision) ==
    LET approvalId == Len(s.requests) + 1
        request == [decision |-> decision, requested_at |-> s.now,
                    timeout_at |-> s.now + (s.config.approval_timeout * 1000),
                    status |-> "pending", approver |-> "", response_time |-> -1]
        s1 == [s EXCEPT !.requests = Append(@, request),
                        !.pendingApprovals = @ \cup {approvalId},
                        !.metrics.approvals_requested = @ + 1,
                        !.timers = @ \cup {approvalId}]
    IN  emit(s1, "approval_requested", approvalId)

\* The callback writing to the request it closed over, without the lookup
\* and the status test.
timeoutCallback_NoStatusCheck(s, approvalId) ==
    emit([s EXCEPT !.requests[approvalId].status = "timeout"],
         "approval_timeout", approvalId)

\* The callback without the emit of approval_timeout.
timeoutCallback_Silent(s, approvalId) ==
    IF approvalId \in s.pendingApprovals /\ s.requests[approvalId].status = "pending"
    THEN [s EXCEPT !.requests[approvalId].status = "timeout"]
    ELSE s

\* Lines 276-283, the callback given to setTimeout.
timeoutCallback(s, approvalId) ==
    IF approvalId \in s.pendingApprovals /\ s.requests[approvalId].status = "pending"
    THEN emit([s EXCEPT !.requests[approvalId].status = "timeout"],
              "approval_timeout", approvalId)
    ELSE s

\* Line 290 without the test of the status.
responseRejected_MissingOnly(s, requestId) ==
    requestId \notin s.pendingApprovals

\* Line 290: the request is missing from the map or it is not pending.
responseRejected(s, requestId) ==
    requestId \notin s.pendingApprovals \/ s.requests[requestId].status # "pending"

\* processApprovalResponse without the recordApprovedDecision of line 302.
processApprovalResponse_NoCommit(s, requestId, approved, approver) ==
    LET s1 == [s EXCEPT !.requests[requestId].status =
                             IF approved THEN "approved" ELSE "denied",
                        !.requests[requestId].approver = approver,
                        !.requests[requestId].response_time =
                             s.now - s.requests[requestId].requested_at]
        s2 == updateApprovalRate(s1, approved)
        s3 == emit(s2, "approval_processed", requestId)
    IN  [s3 EXCEPT !.pendingApprovals = @ \ {requestId}]

\* Lines 294-315, the part of processApprovalResponse after the check.
processApprovalResponse(s, requestId, approved, approver) ==
    LET s1 == [s EXCEPT !.requests[requestId].status =
                             IF approved THEN "approved" ELSE "denied",
                        !.requests[requestId].approver = approver,
                        !.requests[requestId].response_time =
                             s.now - s.requests[requestId].requested_at]
        s2 == IF approved
              THEN recordApprovedDecision(updateApprovalRate(s1, TRUE),
                                          s1.requests[requestId].decision)
              ELSE updateApprovalRate(s1, FALSE)
        s3 == emit(s2, "approval_processed", requestId)
    IN  [s3 EXCEPT !.pendingApprovals = @ \ {requestId}]

\* Lines 752-761, the sweep of expired requests.
sweepExpired(s) ==
    LET expired == {id \in s.pendingApprovals :
                       s.requests[id].timeout_at < s.now /\ s.requests[id].status = "pending"}
        RECURSIVE Timeouts(_)
        Timeouts(todo) ==
            IF todo = {} THEN << >>
            ELSE LET id == CHOOSE i \in todo : \A j \in todo : i <= j
                 IN  <<(<<"approval_timeout", id>>)>> \o Timeouts(todo \ {id})
    IN  [s EXCEPT !.requests = [id \in DOMAIN @ |->
                      IF id \in expired THEN [@[id] EXCEPT !.status = "timeout"] ELSE @[id]],
                  !.pendingApprovals = @ \ expired,
                  !.events = @ \o Timeouts(expired)]

\* Lines 549-585.
executeEscalationAction(s, trigger, decision) ==
    LET s1 == [s EXCEPT !.metrics.escalations = @ + 1]
    IN  CASE trigger.action = PAUSE_AGENT -> triggerEmergencyStop(s1)
          [] trigger.action = REQUEST_APPROVAL -> requestApproval(s1, decision)
          [] trigger.action = NOTIFY_OWNER -> emit(s1, "owner_notification", 0)
          [] trigger.action = REDUCE_AUTONOMY ->
                updateAutonomyLevel(s1, getReducedAutonomyLevel(s1))
          [] trigger.action = LOG_INCIDENT ->
                recordViolation(s1, [type |-> trigger.type, severity |-> "warning",
                                     action_taken |-> "logged"])
          [] OTHER -> s1

\* checkEscalationTriggers executing the action of every matching trigger.
checkEscalationTriggers_All(s, decision) ==
    LET triggers == s.config.escalation_triggers
        matching == {i \in 1..Len(triggers) : evaluateTrigger(triggers[i], decision)}
        RECURSIVE Executed(_, _)
        Executed(t, i) ==
            IF i > Len(triggers) THEN t
            ELSE Executed(IF i \in matching
                          THEN executeEscalationAction(t, triggers[i], decision)
                          ELSE t, i + 1)
    IN  IF matching # {}
        THEN [s |-> Executed(s, 1),
              r |-> createValidationResult(s, FALSE, "escalation_trigger", "true")]
        ELSE [s |-> s, r |-> createValidationResult(s, TRUE, "", "undefined")]

\* Lines 515-529.  Returns the new state and the check's result.
checkEscalationTriggers(s, decision) ==
    LET triggers == s.config.escalation_triggers
        matching == {i \in 1..Len(triggers) : evaluateTrigger(triggers[i], decision)}
    IN  IF matching # {}
        THEN LET first == CHOOSE i \in matching : \A j \in matching : i <= j
             IN  [s |-> executeEscalationAction(s, triggers[first], decision),
                  r |-> createValidationResult(s, FALSE, "escalation_trigger", "true")]
        ELSE [s |-> s, r |-> createValidationResult(s, TRUE, "", "undefined")]

-----------------------------------------------------------------------------
(* validateDecision, lines 175-231, cut at its await points.  Each piece     *)
(* returns the new state, where the call is suspended (pc), the result of    *)
(* the check it awaits (check) and, when the call returns, its result.       *)

Returned(s, r) ==
    [s |-> s, pc |-> "done", check |-> NoResult, result |-> r, threw |-> FALSE]

Suspended(s, pc, check) ==
    [s |-> s, pc |-> pc, check |-> check, result |-> NoResult, threw |-> FALSE]

\* The promise returned by validateDecision is rejected.
Thrown(s) ==
    [s |-> s, pc |-> "done", check |-> NoResult, result |-> NoResult, threw |-> TRUE]

\* What an await receives from a promise that was rejected.
Rejection ==
    [approved |-> FALSE, reason |-> "rejected", escalation_required |-> "undefined",
     approval_timeout |-> << >>]

\* Lines 227-230, the catch block.  EventEmitter.emit('error', ...) throws
\* when no listener is registered for 'error'.
vdCatch(s) ==
    IF "error" \in s.listeners
    THEN Returned(emit(s, "error", 0),
                  createValidationResult(s, FALSE, "validation_error", "true"))
    ELSE Thrown(s)

\* validateDecision with the escalation check before the risk check.
vdAfterContent_EscalationFirst(s, decision) ==
    LET riskCheck == validateRiskLevel(s, decision)
        escalationCheck == checkEscalationTriggers(s, decision)
    IN  IF escalationCheck.r.escalation_required = "true"
        THEN Returned(escalationCheck.s, escalationCheck.r)
        ELSE IF ~riskCheck.approved THEN Returned(s, riskCheck)
        ELSE Suspended(recordApprovedDecision(escalationCheck.s, decision),
                       "awaitRecord",
                       IF "decision_approved" \in s.listeners THEN Rejection ELSE NoResult)

\* validateDecision going on to the commit after an escalation.
vdAfterContent_CommitEscalated(s, decision) ==
    LET riskCheck == validateRiskLevel(s, decision)
        escalationCheck == checkEscalationTriggers(s, decision)
    IN  IF ~riskCheck.approved THEN Returned(s, riskCheck)
        ELSE IF escalationCheck.r.escalation_required = "true"
        THEN Returned(recordApprovedDecision(escalationCheck.s, decision),
                      escalationCheck.r)
        ELSE Suspended(recordApprovedDecision(escalationCheck.s, decision),
                       "awaitRecord",
                       IF "decision_approved" \in s.listeners THEN Rejection ELSE NoResult)

\* Lines 210-225: risk check, escalation check, commit; suspended at
\* `await this.recordApprovedDecision(decision)`, whose body has already run.
\* The listener of decision_approved that the model registers throws: emit
\* is the last statement of recordApprovedDecision, whose promise is then
\* rejected.
vdAfterContent(s, decision) ==
    LET riskCheck == validateRiskLevel(s, decision)
        escalationCheck == checkEscalationTriggers(s, decision)
    IN  IF ~riskCheck.approved THEN Returned(s, riskCheck)
        ELSE IF escalationCheck.r.escalation_required = "true"
        THEN Returned(escalationCheck.s, escalationCheck.r)
        ELSE Suspended(recordApprovedDecision(escalationCheck.s, decision),
                       "awaitRecord",
                       IF "decision_approved" \in s.listeners THEN Rejection ELSE NoResult)

\* Lines 194-208: interaction check; content check, suspended at
\* `await this.validateContent(decision)`, whose body has already run.
vdAfterSpending(s, decision) ==
    LET interactionCheck == validateInteractionLimits(s, decision)
        contentCheck == validateContent(s, decision)
    IN  IF decision.type = PLATFORM_INTERACTION /\ ~interactionCheck.approved
        THEN Returned(s, interactionCheck)
        ELSE IF decision.type = CONTENT_CREATION
        THEN Suspended(contentCheck.s, "awaitContent", contentCheck.r)
        ELSE vdAfterContent(s, decision)

\* Lines 177-188: history, type check; spending check, suspended at
\* `await this.validateSpending(decision)`, whose body has already run.
vdStart(s, decision) ==
    LET s1 == [s EXCEPT !.decisionHistory = Append(@, decision),
                        !.metrics.decisions_made = @ + 1]
    IN  IF ~isDecisionTypeAllowed(s1, decision.type)
        THEN Returned(s1, createValidationResult(s1, FALSE, "type_not_allowed", "true"))
        ELSE IF decision.type = FINANCIAL_TRANSACTION /\ decision.estimated_cost # 0
        THEN Suspended(s1, "awaitSpending", validateSpending(s1, decision))
        ELSE vdAfterSpending(s1, decision)

\* The continuation of a suspended call.
vdResume(s, decision, pc, check) ==
    CASE pc = "awaitSpending" ->
            IF ~check.approved THEN Returned(s, check) ELSE vdAfterSpending(s, decision)
      [] pc = "awaitContent" ->
            IF ~check.approved THEN Returned(s, check) ELSE vdAfterContent(s, decision)
      [] pc = "awaitRecord" ->
            IF check = Rejection THEN vdCatch(s)
            ELSE Returned(s, createValidationResult(s, TRUE, "approved", "undefined"))

-----------------------------------------------------------------------------
(* Construction, lines 151-173 *)

\* Lines 702-713.
getDefaultInteractionRules ==
    [max_posts_per_hour |-> 20,
     forbidden_content_types |->
        <<(<<"s","p","a","m">>), (<<"h","a","r","a","s","s","m","e","n","t">>),
          (<<"f","i","n","a","n","c","i","a","l","_","a","d","v","i","c","e">>)>>]


\* Lines 715-732.  The threshold 0.1 of the error-rate trigger is written 0:
\* evaluateTrigger never reads the threshold of an ERROR_RATE trigger.
getDefaultEscalationTriggers ==
    <<[type |-> SPENDING_THRESHOLD, threshold |-> 1000, action |-> REQUEST_APPROVAL],
      [type |-> ERROR_RATE, threshold |-> 0, action |-> REDUCE_AUTONOMY]>>

\* The state after `new AutonomyController(level, spendingLimits)`.
Constructed(level, spendingLimits) ==
    /\ config = [level |-> level,
                 spending_limits |-> spendingLimits,
                 interaction_rules |-> getDefaultInteractionRules,
                 escalation_triggers |-> getDefaultEscalationTriggers,
                 approval_timeout |-> 300]
    /\ currentSpending = [c \in Currencies |-> 0]
    /\ interactionCounts = << >>
    /\ pendingApprovals = {}
    /\ requests = << >>
    /\ timers = {}
    /\ violationHistory = << >>
    /\ decisionHistory = << >>
    /\ metrics = [decisions_made |-> 0, approvals_requested |-> 0,
                  approval_rate |-> <<0, 1>>, average_response_time |-> 0,
                  violations |-> 0, escalations |-> 0,
                  autonomy_score |-> calculateInitialAutonomyScore(level)]
    /\ listeners = {}
    /\ calls = << >>
    /\ microtasks = << >>
    /\ now = 0
    /\ lastOp = [op |-> "constructor", level |-> level, call |-> 0, id |-> 0, decision |-> NoDecision,
                 newLevel |-> "",
                 returned |-> FALSE, result |-> NoResult, threw |-> FALSE,
                 events |-> << >>]

SpendingLimits(dailyLimit, perTransactionLimit, approvalRequiredAbove) ==
    [dailyLimit |-> dailyLimit, perTransactionLimit |-> perTransactionLimit,
     approvalRequiredAbove |-> approvalRequiredAbove]

-----------------------------------------------------------------------------
(* Actions *)

\* The fields of `this` after a step that leaves them as in s.
Commit(s) ==
    /\ config' = s.config
    /\ currentSpending' = s.currentSpending
    /\ interactionCounts' = s.interactionCounts
    /\ pendingApprovals' = s.pendingApprovals
    /\ requests' = s.requests
    /\ timers' = s.timers
    /\ violationHistory' = s.violationHistory
    /\ decisionHistory' = s.decisionHistory
    /\ metrics' = s.metrics
    /\ listeners' = s.listeners
    /\ now' = s.now

\* A synchronous call that is not part of a validateDecision invocation.
Call(op, id, decision, s, threw) ==
    \E after \in {s} :
        /\ Commit(after)
        /\ UNCHANGED <<calls, microtasks>>
        /\ lastOp' = [op |-> op, level |-> config.level, call |-> 0, id |-> id,
                      decision |-> decision, newLevel |-> "",
                      returned |-> FALSE, result |-> NoResult,
                      threw |-> threw, events |-> after.events]

\* The action of a call that was not made through validateAction.
NoAction == [type |-> "", amount |-> 0, public |-> FALSE, platform |-> ""]

\* validateDecision(decision) is entered, from a caller (op "validateDecision")
\* or from validateAction (op "validateAction", with its action): the code up
\* to the first await.
StartCall(op, decision, action) ==
    \E o \in {vdStart(Self, decision)}, c \in {Len(calls) + 1} :
        /\ Commit(o.s)
        /\ calls' = Append(calls, [pc |-> o.pc, check |-> o.check, via |-> op,
                                   action |-> action,
                                   result |-> o.result, threw |-> o.threw])
        /\ microtasks' = IF o.pc = "done" THEN microtasks ELSE Append(microtasks, c)
        /\ lastOp' = [op |-> op, level |-> config.level, call |-> c, id |-> 0,
                      decision |-> decision, newLevel |-> "",
                      returned |-> (o.pc = "done" /\ ~o.threw),
                      result |-> o.result, threw |-> o.threw, events |-> o.s.events]

ValidateDecision(decision) ==
    StartCall("validateDecision", decision, NoAction)

\* Lines 630-639.
mapActionToDecisionType(action) ==
    IF action.type = "post" \/ action.type = "reply" THEN CONTENT_CREATION
    ELSE IF action.type = "payment" THEN FINANCIAL_TRANSACTION
    ELSE PLATFORM_INTERACTION

\* Lines 641-650.  `public` stands for `action.public || action.permanent`.
assessActionRisk(action) ==
    IF action.amount # 0 /\ action.amount > 100 THEN "high"
    ELSE IF action.public THEN "medium"
    ELSE "low"

\* 'Platform action', the description of an action that has none.
PlatformAction ==
    <<"P","l","a","t","f","o","r","m"," ","a","c","t","i","o","n">>

\* Lines 233-253: the Decision built from an action has no estimated_cost
\* and no currency.
validateAction(action) ==
    MkDecision(mapActionToDecisionType(action), assessActionRisk(action), 0, "",
               action.platform, PlatformAction)

ValidateAction(action) ==
    StartCall("validateAction", validateAction(action), action)

\* The event loop runs the oldest suspended call up to its next await.
RunMicrotask ==
    /\ microtasks # << >>
    /\ \E c \in {Head(microtasks)} :
       \E o \in {vdResume(Self, decisionHistory[c], calls[c].pc, calls[c].check)} :
           /\ Commit(o.s)
           /\ calls' = [calls EXCEPT ![c].pc = o.pc, ![c].check = o.check,
                                     ![c].result = o.result, ![c].threw = o.threw]
           /\ microtasks' = IF o.pc = "done" THEN Tail(microtasks)
                            ELSE Append(Tail(microtasks), c)
           /\ lastOp' = [op |-> "resume", level |-> config.level, call |-> c, id |-> 0,
                         decision |-> decisionHistory[c],
                         newLevel |-> "",
                         returned |-> (o.pc = "done" /\ ~o.threw),
                         result |-> o.result, threw |-> o.threw, events |-> o.s.events]

\* requestApproval(decision) called directly; its body has no await.
RequestApproval(decision) ==
    Call("requestApproval", Len(requests) + 1, decision, requestApproval(Self, decision), FALSE)

\* processApprovalResponse(requestId, approved, approver): lines 288-316.
ProcessApprovalResponse(requestId, approved) ==
    IF responseRejected(Self, requestId)
    THEN Call("processApprovalResponse", requestId, NoDecision, Self, TRUE)
    ELSE Call("processApprovalResponse", requestId, NoDecision,
              processApprovalResponse(Self, requestId, approved, "owner"), FALSE)

\* The setTimeout callback of a request runs, once, when its delay has passed.
\* Timer callbacks are tasks: they run when no microtask is queued.
TimeoutCallback(approvalId) ==
    /\ approvalId \in timers
    /\ microtasks = << >>
    /\ now >= requests[approvalId].timeout_at
    /\ Call("timeoutCallback", approvalId, NoDecision,
            [timeoutCallback(Self, approvalId) EXCEPT !.timers = @ \ {approvalId}], FALSE)

\* The setInterval callback of lines 752-761.
SweepExpired ==
    /\ microtasks = << >>
    /\ Call("sweepExpired", 0, NoDecision, sweepExpired(Self), FALSE)

TriggerEmergencyStop ==
    Call("triggerEmergencyStop", 0, NoDecision, triggerEmergencyStop(Self), FALSE)

UpdateAutonomyLevel(newLevel) ==
    \E after \in {updateAutonomyLevel(Self, newLevel)} :
        /\ Commit(after)
        /\ UNCHANGED <<calls, microtasks>>
        /\ lastOp' = [op |-> "updateAutonomyLevel", level |-> config.level, call |-> 0,
                      id |-> 0, decision |-> NoDecision, newLevel |-> newLevel,
                      returned |-> FALSE, result |-> NoResult, threw |-> FALSE,
                      events |-> after.events]

\* Lines 336-339, with a new dailyLimit.
UpdateSpendingLimits(dailyLimit) ==
    Call("updateSpendingLimits", 0, NoDecision,
         emit([Self EXCEPT !.config.spending_limits.dailyLimit = dailyLimit],
              "spending_limits_updated", 0), FALSE)

\* Lines 341-344, with a new max_posts_per_hour.
UpdateInteractionRules(max_posts_per_hour) ==
    Call("updateInteractionRules", 0, NoDecision,
         emit([Self EXCEPT !.config.interaction_rules.max_posts_per_hour = max_posts_per_hour],
              "interaction_rules_updated", 0), FALSE)

\* Lines 346-349.
AddEscalationTrigger(trigger) ==
    /\ Len(config.escalation_triggers) < MaxTriggers
    /\ Call("addEscalationTrigger", 0, NoDecision,
            emit([Self EXCEPT !.config.escalation_triggers = Append(@, trigger)],
                 "escalation_trigger_added", 0), FALSE)

\* Lines 351-356.
RemoveEscalationTrigger(triggerType) ==
    Call("removeEscalationTrigger", 0, NoDecision,
         emit([Self EXCEPT !.config.escalation_triggers =
                              SelectSeq(@, LAMBDA tr : tr.type # triggerType)],
              "escalation_trigger_removed", 0), FALSE)

\* Lines 736-738, the daily setInterval callback.
DailyReset ==
    /\ microtasks = << >>
    /\ Call("dailyReset", 0, NoDecision,
            [Self EXCEPT !.currentSpending = [c \in Currencies |-> 0]], FALSE)

\* Lines 741-749, the hourly setInterval callback.
PruneInteractionCounts ==
    /\ microtasks = << >>
    /\ LET cutoff == HourOf(now) - 24
           kept == {key \in DOMAIN interactionCounts : ~(key[2] < cutoff)}
       IN  Call("pruneInteractionCounts", 0, NoDecision,
                [Self EXCEPT !.interactionCounts = [key \in kept |-> @[key]]], FALSE)

\* on(eventName, listener), inherited from EventEmitter (line 142).  The
\* listeners the model registers are one of 'error', which returns, and one
\* of 'decision_approved', which throws.
On(eventName) ==
    /\ eventName \notin listeners
    /\ Call("on", 0, NoDecision, [Self EXCEPT !.listeners = @ \cup {eventName}], FALSE)

\* Lines 341-344, with a new list of forbidden_content_types.
UpdateForbiddenContentTypes(types) ==
    Call("updateInteractionRules", 0, NoDecision,
         emit([Self EXCEPT !.config.interaction_rules.forbidden_content_types = types],
              "interaction_rules_updated", 0), FALSE)

\* A timer never fires early: the clock step that takes the controller past
\* one approval timeout (approval_timeout * 1000 ms and a millisecond more).
ClockStep ==
    config.approval_timeout * 1000 + 1

\* Time passes, one clock step at a time, up to maxTime of them, while a
\* timer is outstanding.
TickUpTo(maxTime) ==
    /\ timers # {}
    /\ now + ClockStep <= maxTime * ClockStep
    /\ now' = now + ClockStep
    /\ lastOp' = [op |-> "tick", level |-> config.level, call |-> 0, id |-> 0, decision |-> NoDecision,
                  newLevel |-> "",
                  returned |-> FALSE, result |-> NoResult, threw |-> FALSE,
                  events |-> << >>]
    /\ UNCHANGED <<config, currentSpending, interactionCounts, pendingApprovals, requests,
                   timers, violationHistory, decisionHistory, metrics, listeners, calls,
                   microtasks>>

Tick ==
    TickUpTo(MaxTime)

-----------------------------------------------------------------------------
(* The approval workflow: requests, responses, timeouts, emergency stop *)

ApprovalDecisions ==
    {MkDecision(PLATFORM_INTERACTION, "low", 7, "SEI", "twitter", << >>)}

InitApproval ==
    \E level \in {RESTRICTED, AUTONOMOUS} :
        Constructed(level, SpendingLimits(100, 50, 20))

\* A request is opened only while its deadline can pass within the modelled
\* time; a response names an issued id or the next, never issued, one.
NextApproval ==
    \/ \E d \in ApprovalDecisions :
          /\ Len(requests) < MaxRequests
          /\ now + ClockStep <= MaxTime * ClockStep
          /\ RequestApproval(d)
    \/ \E id \in 1..(Len(requests) + 1), approved \in BOOLEAN :
          ProcessApprovalResponse(id, approved)
    \/ \E id \in 1..MaxRequests : TimeoutCallback(id)
    \/ SweepExpired
    \/ TriggerEmergencyStop
    \/ Tick

SpecApproval == InitApproval /\ [][NextApproval]_vars

\* The same workflow with the scheduling the runtime guarantees: time passes,
\* and a setTimeout callback whose delay has passed is eventually run.  A
\* request is opened only while its deadline is within the modelled time.
NextLive ==
    \/ \E d \in ApprovalDecisions :
          /\ Len(requests) < MaxLiveRequests
          /\ now + ClockStep <= MaxTime * ClockStep
          /\ RequestApproval(d)
    \/ \E id \in 1..(MaxLiveRequests + 1), approved \in BOOLEAN :
          ProcessApprovalResponse(id, approved)
    \/ \E id \in 1..MaxLiveRequests : TimeoutCallback(id)
    \/ SweepExpired
    \/ TriggerEmergencyStop
    \/ Tick

LiveApproval ==
    /\ InitApproval /\ [][NextLive]_vars
    /\ WF_vars(Tick)
    /\ \A id \in 1..MaxLiveRequests : WF_vars(TimeoutCallback(id))

-----------------------------------------------------------------------------
(* Concurrent financial decisions against one daily limit *)

RaceDecisions ==
    {MkDecision(FINANCIAL_TRANSACTION, "low", cost, currency, "", << >>) :
        cost \in {4, 7}, currency \in Currencies}

InitRace == Constructed(AUTONOMOUS, SpendingLimits(10, 10, 10))

NextRace ==
    \/ \E d \in RaceDecisions :
          /\ Len(calls) < MaxRaceCalls
          /\ ValidateDecision(d)
    \/ RunMicrotask

SpecRace == InitRace /\ [][NextRace]_vars

-----------------------------------------------------------------------------
(* Repeated ReduceAutonomy escalations from level autonomous *)

ReduceTrigger ==
    [type |-> SPENDING_THRESHOLD, threshold |-> 50, action |-> REDUCE_AUTONOMY]

LadderDecisions ==
    {MkDecision(LEARNING_ADAPTATION, "low", cost, "SEI", "", << >>) : cost \in {0, 60}}

InitLadder == Constructed(AUTONOMOUS, SpendingLimits(100, 50, 20))

NextLadder ==
    \/ AddEscalationTrigger(ReduceTrigger)
    \/ \E d \in LadderDecisions :
          /\ Len(calls) < MaxLadderCalls
          /\ ValidateDecision(d)
    \/ RunMicrotask

SpecLadder == InitLadder /\ [][NextLadder]_vars

-----------------------------------------------------------------------------
(* Decisions of every type at every level *)

TypeDecisions ==
    {MkDecision(type, "low", cost, "SEI", "twitter", << >>) :
        type \in DecisionType, cost \in {0, 5}}

InitTypes ==
    \E level \in AutonomyLevel : Constructed(level, SpendingLimits(100, 50, 20))

NextTypes ==
    \/ \E d \in TypeDecisions :
          /\ Len(calls) < MaxTypeCalls
          /\ ValidateDecision(d)
    \/ RunMicrotask

SpecTypes == InitTypes /\ [][NextTypes]_vars

-----------------------------------------------------------------------------
(* Every operation of the controller *)

ControlDecisions ==
    {MkDecision(LEARNING_ADAPTATION, "low", 60, "SEI", "", << >>),
     MkDecision(FINANCIAL_TRANSACTION, "low", 7, "SEI", "", << >>)}

ControlActions ==
    {[type |-> "like", amount |-> 0, public |-> FALSE, platform |-> "twitter"]}

ControlTriggers ==
    {[type |-> SPENDING_THRESHOLD, threshold |-> 50, action |-> a] : a \in EscalationAction}

InitControl == Constructed(AUTONOMOUS, SpendingLimits(100, 50, 20))

\* Requests are opened by the RequestApproval escalation of a decision, so
\* there are at most as many as calls.
NextControl ==
    \/ \E d \in ControlDecisions :
          /\ Len(calls) < MaxControlCalls
          /\ ValidateDecision(d)
    \/ \E a \in ControlActions :
          /\ Len(calls) < MaxControlCalls
          /\ ValidateAction(a)
    \/ RunMicrotask
    \/ \E id \in 1..MaxControlCalls, approved \in BOOLEAN :
          ProcessApprovalResponse(id, approved)
    \/ \E id \in 1..MaxControlCalls : TimeoutCallback(id)
    \/ SweepExpired
    \/ DailyReset
    \/ PruneInteractionCounts
    \/ TriggerEmergencyStop
    \/ UpdateAutonomyLevel(AUTONOMOUS)
    \/ \E trigger \in ControlTriggers : AddEscalationTrigger(trigger)
    \/ TickUpTo(MaxControlTime)

SpecControl == InitControl /\ [][NextControl]_vars

-----------------------------------------------------------------------------
(* Financial decisions against the three spending limits *)

SpendingDecisions ==
    {MkDecision(FINANCIAL_TRANSACTION, "low", cost, currency, "", << >>) :
        cost \in {5, 30, 60, 150}, currency \in {"", "SEI"}}

InitSpending ==
    \E level \in {SEMI_AUTONOMOUS, AUTONOMOUS}, dailyLimit \in {50, 100},
       perTransactionLimit \in {40, 200}, approvalRequiredAbove \in {20, 200} :
        Constructed(level,
                    SpendingLimits(dailyLimit, perTransactionLimit, approvalRequiredAbove))

NextSpending ==
    \/ \E d \in SpendingDecisions :
          /\ Len(calls) < MaxSpendingCalls
          /\ ValidateDecision(d)
    \/ RunMicrotask

SpecSpending == InitSpending /\ [][NextSpending]_vars

-----------------------------------------------------------------------------
(* Platform interactions against max_posts_per_hour, within one hour *)

RateDecisions ==
    {MkDecision(PLATFORM_INTERACTION, "low", 0, "", platform, << >>) :
        platform \in {"", "default", "twitter"}}

InitRate ==
    \E level \in {SUPERVISED, AUTONOMOUS} :
        Constructed(level, SpendingLimits(100, 50, 20))

\* The operator sets max_posts_per_hour before the first decision and leaves
\* the rules alone afterwards.
NextRate ==
    \/ \E n \in {1, 2} :
          /\ lastOp.op = "constructor"
          /\ UpdateInteractionRules(n)
    \/ \E d \in RateDecisions :
          /\ Len(calls) < MaxRateCalls
          /\ ValidateDecision(d)
    \/ RunMicrotask

SpecRate == InitRate /\ [][NextRate]_vars

-----------------------------------------------------------------------------
(* Content creation against forbidden_content_types *)

ContentDescriptions ==
    {<< >>, <<"h","i">>, <<"S","P","A","M">>, <<"a"," ","S","p","a","m">>,
     <<"s","p","a"," ","m">>}

ContentDecisions ==
    {MkDecision(CONTENT_CREATION, "low", 0, "", "twitter", description) :
        description \in ContentDescriptions}

ForbiddenLists ==
    {<< >>, <<(<<"H","i">>), (<<"h">>)>>}

InitContent ==
    \E level \in {SEMI_AUTONOMOUS, AUTONOMOUS} :
        Constructed(level, SpendingLimits(100, 50, 20))

NextContent ==
    \/ \E types \in ForbiddenLists :
          /\ config.interaction_rules.forbidden_content_types # types
          /\ UpdateForbiddenContentTypes(types)
    \/ \E d \in ContentDecisions :
          /\ Len(calls) < MaxContentCalls
          /\ ValidateDecision(d)
    \/ RunMicrotask

SpecContent == InitContent /\ [][NextContent]_vars

-----------------------------------------------------------------------------
(* Decisions of every risk level at every autonomy level *)

RiskDecisions ==
    {MkDecision(type, risk, 0, "", "twitter", << >>) :
        type \in {LEARNING_ADAPTATION, PLATFORM_INTERACTION}, risk \in RiskLevel}
    \cup {MkDecision(CONTENT_CREATION, risk, 0, "", "twitter", <<"s","p","a","m">>) :
            risk \in RiskLevel}

InitRisk ==
    \E level \in AutonomyLevel : Constructed(level, SpendingLimits(100, 50, 20))

NextRisk ==
    \/ /\ lastOp.op = "constructor"
       /\ UpdateInteractionRules(1)
    \/ \E d \in RiskDecisions :
          /\ Len(calls) < MaxRiskCalls
          /\ ValidateDecision(d)
    \/ RunMicrotask

SpecRisk == InitRisk /\ [][NextRisk]_vars

-----------------------------------------------------------------------------
(* Escalation triggers of every action, several of them matching *)

EscalationTriggers ==
    {[type |-> SPENDING_THRESHOLD, threshold |-> 50, action |-> a] :
        a \in EscalationAction}

EscalationDecisions ==
    {MkDecision(LEARNING_ADAPTATION, "low", cost, "SEI", "", << >>) : cost \in {0, 60}}
    \cup {MkDecision(PLATFORM_INTERACTION, "low", 60, "SEI", "twitter", << >>),
          MkDecision(FINANCIAL_TRANSACTION, "low", 60, "SEI", "", << >>)}

InitEscalation == Constructed(AUTONOMOUS, SpendingLimits(1000, 500, 200))

NextEscalation ==
    \/ /\ calls = << >>
       /\ \/ \E t \in EscalationTriggers : AddEscalationTrigger(t)
          \/ /\ lastOp.op = "constructor"
             /\ RemoveEscalationTrigger(SPENDING_THRESHOLD)
    \/ \E d \in EscalationDecisions :
          /\ Len(calls) < MaxEscalationCalls
          /\ ValidateDecision(d)
    \/ RunMicrotask

SpecEscalation == InitEscalation /\ [][NextEscalation]_vars

-----------------------------------------------------------------------------
(* Exceptions raised while a decision is validated *)

FaultDecisions ==
    {MkDecision(LEARNING_ADAPTATION, "low", 0, "", "", << >>),
     MkDecision(PLATFORM_INTERACTION, "low", 7, "SEI", "twitter", << >>),
     MkDecision(FINANCIAL_TRANSACTION, "low", 7, "SEI", "", << >>)}

InitFaults == Constructed(AUTONOMOUS, SpendingLimits(100, 50, 20))

NextFaults ==
    \/ \E eventName \in {"error", "decision_approved"} : On(eventName)
    \/ \E d \in FaultDecisions :
          /\ Len(calls) < MaxFaultCalls
          /\ ValidateDecision(d)
    \/ RunMicrotask

SpecFaults == InitFaults /\ [][NextFaults]_vars

-----------------------------------------------------------------------------
(* Level changes, up and down, between changes of the limits *)

LevelDailyLimits == {5, 50, 500}

LevelPostLimits == {1, 5, 50}

InitLevels ==
    \E level \in AutonomyLevel, dailyLimit \in LevelDailyLimits :
        Constructed(level, SpendingLimits(dailyLimit, 50, 20))

NextLevels ==
    \/ \E newLevel \in AutonomyLevel : UpdateAutonomyLevel(newLevel)
    \/ \E dailyLimit \in LevelDailyLimits : UpdateSpendingLimits(dailyLimit)
    \/ \E max_posts_per_hour \in LevelPostLimits : UpdateInteractionRules(max_posts_per_hour)
    \/ TriggerEmergencyStop
    \/ /\ calls = << >>
       /\ AddEscalationTrigger(ReduceTrigger)
    \/ \E d \in LadderDecisions :
          /\ Len(calls) < MaxLevelCalls
          /\ ValidateDecision(d)
    \/ RunMicrotask

SpecLevels == InitLevels /\ [][NextLevels]_vars

-----------------------------------------------------------------------------
(* Decisions that fail several checks at once, validated one at a time *)

OrderTrigger ==
    [type |-> SPENDING_THRESHOLD, threshold |-> 50, action |-> LOG_INCIDENT]

OrderDecisions ==
    {MkDecision(type, risk, cost, "SEI", "twitter", << >>) :
        type \in {FINANCIAL_TRANSACTION, PLATFORM_INTERACTION},
        risk \in {"low", "critical"}, cost \in {0, 60}}
    \cup {MkDecision(CONTENT_CREATION, risk, cost, "SEI", "twitter", description) :
            risk \in {"low", "critical"}, cost \in {0, 60},
            description \in {<<"h","i">>, <<"s","p","a","m">>}}

InitOrder ==
    \E level \in AutonomyLevel : Constructed(level, SpendingLimits(100, 100, 100))

NextOrder ==
    \/ /\ lastOp.op = "constructor"
       /\ UpdateInteractionRules(1)
    \/ /\ microtasks = << >>
       /\ AddEscalationTrigger(OrderTrigger)
    \/ \E d \in OrderDecisions :
          /\ microtasks = << >>
          /\ Len(calls) < MaxOrderCalls
          /\ ValidateDecision(d)
    \/ RunMicrotask

SpecOrder == InitOrder /\ [][NextOrder]_vars

-----------------------------------------------------------------------------
(* Payment actions validated through validateAction *)

PaymentActions ==
    {[type |-> "payment", amount |-> amount, public |-> FALSE, platform |-> ""] :
        amount \in {5, 30, 60, 150}}

InitPayments ==
    \E level \in AutonomyLevel : Constructed(level, SpendingLimits(100, 50, 20))

NextPayments ==
    \/ \E a \in PaymentActions :
          /\ Len(calls) < MaxPaymentCalls
          /\ ValidateAction(a)
    \/ RunMicrotask

SpecPayments == InitPayments /\ [][NextPayments]_vars

-----------------------------------------------------------------------------
(* Calls made one after the other, the limits and the level left alone *)

SequentialDecisions ==
    {MkDecision(type, "low", cost, "SEI", "", << >>) :
        type \in {FINANCIAL_TRANSACTION, LEARNING_ADAPTATION}, cost \in {60}}

InitSequential == Constructed(AUTONOMOUS, SpendingLimits(100, 100, 100))

\* A call is made when the one before it has returned.
NextSequential ==
    \/ \E d \in SequentialDecisions :
          /\ microtasks = << >>
          /\ Len(calls) < MaxSequentialCalls
          /\ ValidateDecision(d)
    \/ \E a \in PaymentActions :
          /\ a.amount = 150
          /\ microtasks = << >>
          /\ Len(calls) < MaxSequentialCalls
          /\ ValidateAction(a)
    \/ RunMicrotask
    \/ \E d \in SequentialDecisions :
          /\ microtasks = << >>
          /\ Len(requests) < MaxSequentialRequests
          /\ RequestApproval(d)
    \/ \E id \in 1..(Len(requests) + 1), approved \in BOOLEAN :
          /\ microtasks = << >>
          /\ ProcessApprovalResponse(id, approved)

SpecSequential == InitSequential /\ [][NextSequential]_vars

-----------------------------------------------------------------------------
(* The main loop of AgentCore, agent-engine.ts lines 198-229 *)

\* ToBoolean of the value that `await this.autonomy.validateDecision(decision)`
\* yields: a ValidationResult is an object, and an object is truthy whatever
\* its fields hold.
ToBoolean(result) == TRUE

\* Line 207: the loop calls validateDecision for the next decision.
MainLoopValidate(decision) ==
    StartCall("startMainLoop", decision, NoAction)

\* Lines 207-212 and 225-227: the loop resumes with the result and takes a
\* branch of `if (approved)`; a rejection goes to the catch block.
MainLoopBranch ==
    \E c \in DOMAIN calls :
        /\ calls[c].via = "startMainLoop"
        /\ calls[c].pc = "done"
        /\ \E branch \in {IF calls[c].threw THEN "caught"
                          ELSE IF ToBoolean(calls[c].result) THEN "executeDecision"
                          ELSE "escalateDecision"} :
              /\ calls' = [calls EXCEPT ![c].pc = branch]
              /\ lastOp' = [op |-> branch, level |-> config.level, call |-> c, id |-> 0,
                            decision |-> decisionHistory[c], newLevel |-> "",
                            returned |-> FALSE, result |-> calls[c].result,
                            threw |-> calls[c].threw, events |-> << >>]
        /\ Commit(Self)
        /\ UNCHANGED microtasks

AgentDecisions ==
    {MkDecision(type, risk, 0, "", "twitter", << >>) :
        type \in {LEARNING_ADAPTATION, PLATFORM_INTERACTION},
        risk \in {"low", "critical"}}

InitAgent ==
    \E level \in AutonomyLevel : Constructed(level, SpendingLimits(100, 50, 20))

\* The loop takes the next decision when it is done with the one before.
NextAgent ==
    \/ \E d \in AgentDecisions :
          /\ microtasks = << >>
          /\ \A c \in DOMAIN calls : calls[c].pc # "done"
          /\ Len(calls) < MaxAgentCalls
          /\ MainLoopValidate(d)
    \/ RunMicrotask
    \/ MainLoopBranch

SpecAgent == InitAgent /\ [][NextAgent]_vars

-----------------------------------------------------------------------------
(* Observations *)

Range(f) == {f[i] : i \in DOMAIN f}

Emitted(name, id) == <<name, id>> \in Range(lastOp.events)

\* Lines 371-374: the metrics a caller reads.
getMetrics(s) == [s.metrics EXCEPT !.autonomy_score = calculateAutonomyScore(s)]

\* Lines 380-382.
getPendingApprovals(s) == {s.requests[id] : id \in s.pendingApprovals}

Terminal == {"approved", "denied", "timeout"}

\* The ledgers and the metrics are as before the step.
LedgerAndMetricsUnchanged ==
    /\ currentSpending' = currentSpending
    /\ interactionCounts' = interactionCounts
    /\ metrics' = metrics

-----------------------------------------------------------------------------
(* C2: in every step the status of an ApprovalRequest changes only from     *)
(* pending to approved, denied or timeout; a request that is approved,      *)
(* denied or timeout keeps its status for ever.                             *)
C2_StatusMonotonic ==
    [][\A id \in DOMAIN requests :
          /\ requests[id].status \in Terminal => requests'[id].status = requests[id].status
          /\ requests'[id].status \in Terminal \cup {"pending"}]_vars

(* C3: when a response and a timeout race for one pending request, the      *)
(* first to act sets the terminal status and the other changes nothing: a   *)
(* timeout (timer callback or sweep) after a response leaves the request as *)
(* answered and emits no approval_timeout for it; a response after a        *)
(* timeout fails and leaves the request, the ledgers and the metrics alone. *)
C3_RaceHasOneWinner ==
    [][/\ lastOp'.op \in {"timeoutCallback", "sweepExpired"} =>
             \A id \in DOMAIN requests :
                /\ requests[id].status = "pending" =>
                      requests'[id].status \in {"pending", "timeout"}
                /\ requests[id].status \in {"approved", "denied"} =>
                      /\ requests'[id] = requests[id]
                      /\ <<"approval_timeout", id>> \notin Range(lastOp'.events)
       /\ lastOp'.op = "processApprovalResponse" =>
             /\ lastOp'.id \in DOMAIN requests /\ requests[lastOp'.id].status = "pending" =>
                   /\ ~lastOp'.threw
                   /\ requests'[lastOp'.id].status \in {"approved", "denied"}
             /\ lastOp'.id \in DOMAIN requests /\ requests[lastOp'.id].status = "timeout" =>
                   /\ lastOp'.threw
                   /\ requests' = requests
                   /\ LedgerAndMetricsUnchanged]_vars

\* Request 1 was answered before its timer ran, request 2 timed out before
\* the response that has just failed.
C3_Witness ==
    /\ Len(requests) >= 2
    /\ requests[1].status = "approved" /\ 1 \notin timers
    /\ requests[2].status = "timeout"
    /\ lastOp.op = "processApprovalResponse" /\ lastOp.id = 2 /\ lastOp.threw

(* C4: processApprovalResponse for an id that was never issued or whose     *)
(* request is not pending fails and changes nothing: requests, ledgers,     *)
(* metrics (approval_rate) and the pending approvals are as before.         *)
C4_RejectedResponseChangesNothing ==
    [][(/\ lastOp'.op = "processApprovalResponse"
        /\ \/ lastOp'.id \notin DOMAIN requests
           \/ requests[lastOp'.id].status # "pending")
       => /\ lastOp'.threw
          /\ requests' = requests
          /\ pendingApprovals' = pendingApprovals
          /\ LedgerAndMetricsUnchanged]_vars

\* A second response to a request that was already approved has failed.
C4_Witness ==
    /\ lastOp.op = "processApprovalResponse" /\ lastOp.threw
    /\ lastOp.id \in DOMAIN requests
    /\ requests[lastOp.id].status = "approved"

(* C6: triggerEmergencyStop leaves the level at restricted, every request   *)
(* that was pending is denied and out of the pending approvals, and a later *)
(* timer callback, sweep or response does not change a denied request.      *)
C6_EmergencyStopCancels ==
    [][/\ lastOp'.op = "triggerEmergencyStop" =>
             /\ config'.level = RESTRICTED
             /\ \A id \in DOMAIN requests :
                   requests[id].status = "pending" =>
                      /\ requests'[id].status = "denied"
                      /\ requests'[id] \notin getPendingApprovals(Self')
                      /\ id \notin pendingApprovals'
       /\ lastOp'.op \in {"timeoutCallback", "sweepExpired", "processApprovalResponse"} =>
             \A id \in DOMAIN requests :
                requests[id].status = "denied" /\ id \notin pendingApprovals =>
                   requests'[id].status = "denied"]_vars

\* An emergency stop at level autonomous has just cancelled two pending requests.
C6_Witness ==
    /\ lastOp.op = "triggerEmergencyStop" /\ lastOp.level = AUTONOMOUS
    /\ Len(requests) >= 2
    /\ \A id \in {1, 2} : requests[id].status = "denied" /\ Emitted("approval_cancelled", id)


(* C5: a request that gets no response and is not cancelled eventually has  *)
(* status timeout, with an approval_timeout event emitted for it, and every *)
(* response to a timed-out request fails.                                   *)
C5_TimeoutEventually ==
    /\ \A id \in 1..MaxLiveRequests :
          (id \in DOMAIN requests /\ requests[id].status = "pending")
             ~> (/\ id \in DOMAIN requests
                 /\ \/ requests[id].status \in {"approved", "denied"}
                    \/ requests[id].status = "timeout" /\ Emitted("approval_timeout", id))
    /\ [][(/\ lastOp'.op = "processApprovalResponse"
           /\ lastOp'.id \in DOMAIN requests
           /\ requests[lastOp'.id].status = "timeout")
          => lastOp'.threw /\ requests'[lastOp'.id].status = "timeout"]_vars

\* The timer of a request has just set it to timeout and emitted the event.
C5_Witness ==
    /\ lastOp.op = "timeoutCallback"
    /\ requests[lastOp.id].status = "timeout"
    /\ Emitted("approval_timeout", lastOp.id)

\* What triggerEmergencyStop must leave alone besides the configuration.
C7_RestUnchanged ==
    /\ currentSpending' = currentSpending
    /\ interactionCounts' = interactionCounts
    /\ pendingApprovals' = pendingApprovals
    /\ requests' = requests
    /\ violationHistory' = violationHistory
    /\ decisionHistory' = decisionHistory
    /\ getMetrics(Self') = getMetrics(Self)

(* C7 as stated: triggerEmergencyStop at level restricted with no pending   *)
(* approval leaves the level, limits, rules, triggers, ledgers, pending     *)
(* approvals, histories and the metrics read by getMetrics unchanged.       *)
C7_EmergencyStopIdempotent ==
    [][(/\ lastOp'.op = "triggerEmergencyStop"
        /\ config.level = RESTRICTED
        /\ pendingApprovals = {})
       => config' = config /\ C7_RestUnchanged]_vars

(* C7 amended: triggerEmergencyStop at level restricted with no entry in    *)
(* the pending approvals leaves the state unchanged except that dailyLimit  *)
(* becomes min(10, dailyLimit) and max_posts_per_hour min(2, that limit).   *)
C7_EmergencyStopOnlyClamps ==
    [][(/\ lastOp'.op = "triggerEmergencyStop"
        /\ config.level = RESTRICTED
        /\ pendingApprovals = {})
       => /\ config' = [config EXCEPT
                           !.spending_limits.dailyLimit = Min(10, @),
                           !.interaction_rules.max_posts_per_hour = Min(2, @)]
          /\ C7_RestUnchanged]_vars

\* An emergency stop at level restricted that had nothing to cancel.
C7_Witness ==
    /\ lastOp.op = "triggerEmergencyStop" /\ lastOp.level = RESTRICTED
    /\ \A i \in DOMAIN lastOp.events : lastOp.events[i][1] # "approval_cancelled"
    /\ config.spending_limits.dailyLimit = 10


-----------------------------------------------------------------------------
(* C1: with the limits unchanged and no daily reset, the committed          *)
(* dailySpent of every currency stays within dailyLimit, however the        *)
(* financial decisions submitted to validateDecision overlap.               *)
C1_SpentWithinDailyLimit ==
    \A c \in Currencies : currentSpending[c] <= config.spending_limits.dailyLimit

\* The step executed a ReduceAutonomy escalation: an escalation that changed
\* the level without an emergency stop.
ReduceAutonomyStep ==
    /\ metrics'.escalations = metrics.escalations + 1
    /\ <<"autonomy_level_changed", 0>> \in Range(lastOp'.events)
    /\ <<"emergency_stop_triggered", 0>> \notin Range(lastOp'.events)

(* C8: a ReduceAutonomy escalation moves autonomous to semi, semi to        *)
(* supervised, supervised to restricted and leaves restricted at            *)
(* restricted: one rung down, never a skip, never upward.                   *)
C8_LadderOnlyDowngrade ==
    [][ReduceAutonomyStep =>
          /\ config.level = AUTONOMOUS => config'.level = SEMI_AUTONOMOUS
          /\ config.level = SEMI_AUTONOMOUS => config'.level = SUPERVISED
          /\ config.level = SUPERVISED => config'.level = RESTRICTED
          /\ config.level = RESTRICTED => config'.level = RESTRICTED]_vars

\* Four escalations from autonomous: three rungs down and one more at restricted.
C8_Witness ==
    /\ metrics.escalations = 4
    /\ lastOp.level = RESTRICTED /\ config.level = RESTRICTED
    /\ lastOp.returned /\ lastOp.result.reason = "escalation_trigger"

\* The ladder restricted < supervised < semi < autonomous.
Rank(level) ==
    CASE level = RESTRICTED -> 0
      [] level = SUPERVISED -> 1
      [] level = SEMI_AUTONOMOUS -> 2
      [] level = AUTONOMOUS -> 3

(* C9: no step other than an operator call of updateAutonomyLevel raises    *)
(* the autonomy level.                                                      *)
C9_OnlyOperatorRaisesLevel ==
    [][lastOp'.op # "updateAutonomyLevel" => Rank(config'.level) <= Rank(config.level)]_vars

\* A validateDecision call has just lowered the level through an escalation.
C9_Witness ==
    /\ lastOp.op \in {"validateDecision", "resume"}
    /\ lastOp.result.reason = "escalation_trigger"
    /\ Rank(config.level) < Rank(lastOp.level)

\* The allow-sets of the levels.
AllowSet(level) ==
    CASE level = RESTRICTED -> {LEARNING_ADAPTATION}
      [] level = SUPERVISED -> {LEARNING_ADAPTATION, PLATFORM_INTERACTION}
      [] level = SEMI_AUTONOMOUS -> DecisionType \ {FINANCIAL_TRANSACTION}
      [] level = AUTONOMOUS -> DecisionType

(* C10: validateDecision of a decision whose type is outside the allow-set  *)
(* of the level at the call returns approved=false with                     *)
(* escalation_required=true, and commits nothing.                           *)
C10_TypeOutsideAllowSetDenied ==
    [][(/\ lastOp'.op = "validateDecision"
        /\ lastOp'.decision.type \notin AllowSet(config.level))
       => /\ lastOp'.returned
          /\ ~lastOp'.result.approved
          /\ lastOp'.result.escalation_required = "true"
          /\ currentSpending' = currentSpending
          /\ interactionCounts' = interactionCounts]_vars

\* A platform interaction at level restricted has just been denied.
C10_Witness ==
    /\ lastOp.op = "validateDecision" /\ lastOp.level = RESTRICTED
    /\ lastOp.decision.type = PLATFORM_INTERACTION
    /\ lastOp.returned /\ ~lastOp.result.approved
    /\ lastOp.result.reason = "type_not_allowed"

-----------------------------------------------------------------------------
\* validateDecision, called by a caller or through validateAction, has just
\* returned the result of call c.
ReturnsFrom(op) ==
    /\ lastOp'.op \in {op, "resume"}
    /\ lastOp'.returned
    /\ calls'[lastOp'.call].via = op

\* The scenario of C11: a financial decision of cost 150 at level semi with
\* dailyLimit 100.
C11_Scenario ==
    /\ ReturnsFrom("validateDecision")
    /\ config.level = SEMI_AUTONOMOUS
    /\ config.spending_limits.dailyLimit = 100
    /\ lastOp'.decision.type = FINANCIAL_TRANSACTION
    /\ lastOp'.decision.estimated_cost = 150

(* C11 as stated: at level semi with dailyLimit 100, validateDecision of a  *)
(* financial decision of cost 150 returns approved=false with               *)
(* escalation_required=true and the reason of the per-transaction or of the *)
(* daily limit.                                                             *)
C11_DeniedForALimit ==
    [][C11_Scenario =>
          /\ ~lastOp'.result.approved
          /\ lastOp'.result.escalation_required = "true"
          /\ lastOp'.result.reason \in {"per_transaction_limit", "daily_limit"}]_vars

(* C11 amended: at level semi with dailyLimit 100, validateDecision of a    *)
(* financial decision of cost 150 returns approved=false with               *)
(* escalation_required=true and the reason that the decision type is not    *)
(* allowed at the level; the spending limits are not consulted.             *)
C11_DeniedByTypeCheck ==
    [][C11_Scenario =>
          /\ lastOp'.op = "validateDecision"
          /\ ~lastOp'.result.approved
          /\ lastOp'.result.escalation_required = "true"
          /\ lastOp'.result.reason = "type_not_allowed"
          /\ currentSpending' = currentSpending]_vars

\* The decision of the scenario has just been denied at level semi.
C11_Witness ==
    /\ lastOp.op = "validateDecision" /\ lastOp.returned
    /\ lastOp.level = SEMI_AUTONOMOUS
    /\ config.spending_limits.dailyLimit = 100
    /\ lastOp.decision.type = FINANCIAL_TRANSACTION
    /\ lastOp.decision.estimated_cost = 150
    /\ ~lastOp.result.approved

\* The reason the spending checks give for decision d in the current state:
\* per-transaction limit, then daily limit, then approval threshold; "" when
\* the three pass.
SpendingReason(d) ==
    LET cost == d.estimated_cost
        currency == IF d.currency = "" THEN "SEI" ELSE d.currency
        limits == config.spending_limits
    IN  IF cost > limits.perTransactionLimit THEN "per_transaction_limit"
        ELSE IF currentSpending[currency] + cost > limits.dailyLimit THEN "daily_limit"
        ELSE IF cost > limits.approvalRequiredAbove THEN "approval_threshold"
        ELSE ""

-----------------------------------------------------------------------------
\* The platform whose hour bucket validateInteractionLimits reads for d.
PlatformOf(d) == IF d.platform = "" THEN "default" ELSE d.platform

\* The validateDecision calls that approved a platform interaction for platform p.
ApprovedInteractions(p) ==
    {c \in DOMAIN calls :
        /\ decisionHistory[c].type = PLATFORM_INTERACTION
        /\ PlatformOf(decisionHistory[c]) = p
        /\ calls[c].result.approved}

(* C13: within one hour bucket and with the rules unchanged, validateDecision *)
(* approves no more than max_posts_per_hour platform interactions for one     *)
(* platform (the platform whose bucket the rate check reads).                 *)
C13_AtMostMaxPerHour ==
    \A p \in Platforms :
        Cardinality(ApprovedInteractions(p)) <= config.interaction_rules.max_posts_per_hour

-----------------------------------------------------------------------------
\* Two characters that are the same letter, whatever their case.
SameLetter(a, b) ==
    \/ a = b
    \/ \E pair \in {<<"S","s">>, <<"P","p">>, <<"A","a">>, <<"M","m">>, <<"H","h">>,
                    <<"I","i">>} :
          {a, b} = {pair[1], pair[2]}

\* str contains sub, case-insensitively.
ContainsIgnoringCase(str, sub) ==
    \E i \in 0..(Len(str) - Len(sub)) :
        \A j \in 1..Len(sub) : SameLetter(str[i + j], sub[j])

\* The description of d contains an entry of forbidden_content_types.
ForbiddenContent(d) ==
    \E i \in DOMAIN config.interaction_rules.forbidden_content_types :
        ContainsIgnoringCase(d.description,
                             config.interaction_rules.forbidden_content_types[i])

BlockedViolation ==
    [type |-> "content_policy", severity |-> "error", action_taken |-> "blocked"]

(* C14: for a content creation decision whose type is allowed, a            *)
(* description that contains, case-insensitively, an entry of               *)
(* forbidden_content_types makes validateDecision append exactly one         *)
(* GuardrailViolation (severity error, action_taken blocked, violations +1)  *)
(* and deny; otherwise the content check records nothing and does not deny.  *)
C14_ForbiddenContentBlocked ==
    [][/\ (/\ lastOp'.op = "validateDecision"
           /\ lastOp'.decision.type = CONTENT_CREATION
           /\ CONTENT_CREATION \in AllowSet(config.level))
          => /\ calls'[lastOp'.call].pc = "awaitContent"
             /\ IF ForbiddenContent(lastOp'.decision)
                THEN /\ violationHistory' = Append(violationHistory, BlockedViolation)
                     /\ metrics'.violations = metrics.violations + 1
                     /\ ~calls'[lastOp'.call].check.approved
                ELSE /\ violationHistory' = violationHistory
                     /\ metrics'.violations = metrics.violations
                     /\ calls'[lastOp'.call].check.approved
       /\ (lastOp'.op = "resume" /\ calls[lastOp'.call].pc = "awaitContent")
          => /\ violationHistory' = violationHistory
             /\ metrics'.violations = metrics.violations
             /\ IF calls[lastOp'.call].check.approved
                THEN lastOp'.result.reason # "forbidden_content"
                ELSE /\ lastOp'.returned
                     /\ ~lastOp'.result.approved
                     /\ lastOp'.result.reason = "forbidden_content"]_vars

\* The description 'SPAM' has been denied against the entry 'spam', with one
\* violation recorded.
C14_Witness ==
    /\ lastOp.op = "resume" /\ lastOp.returned
    /\ lastOp.decision.description = <<"S","P","A","M">>
    /\ lastOp.result.reason = "forbidden_content"
    /\ violationHistory = <<BlockedViolation>>
    /\ metrics.violations = 1

-----------------------------------------------------------------------------
RiskRank(risk) ==
    CASE risk = "low" -> 1 [] risk = "medium" -> 2 [] risk = "high" -> 3
      [] risk = "critical" -> 4

\* The highest risk rank that passes at a level.
Ceiling(level) ==
    CASE level = RESTRICTED -> 1 [] level = SUPERVISED -> 2
      [] level = SEMI_AUTONOMOUS -> 3 [] level = AUTONOMOUS -> 4

RiskReasons == {"risk_restricted", "risk_supervised", "risk_semi"}

\* The reasons of the checks that validateDecision makes before the risk check.
EarlierReasons ==
    {"type_not_allowed", "per_transaction_limit", "daily_limit", "approval_threshold",
     "hourly_limit", "forbidden_content"}

(* C15 as stated: validateDecision denies with escalation_required=true     *)
(* every decision whose risk_level exceeds the ceiling of the level, and    *)
(* the risk check never denies a decision at or below the ceiling.          *)
C15_OverCeilingEscalated ==
    [][ReturnsFrom("validateDecision") =>
          /\ RiskRank(lastOp'.decision.risk_level) > Ceiling(config.level)
                => /\ ~lastOp'.result.approved
                   /\ lastOp'.result.escalation_required = "true"
          /\ lastOp'.result.reason \in RiskReasons
                => RiskRank(lastOp'.decision.risk_level) > Ceiling(config.level)]_vars

(* C15 amended: validateDecision never approves a decision whose risk_level *)
(* exceeds the ceiling of the level; unless an earlier check (type,         *)
(* spending, interaction rate, content) has denied it with its own reason   *)
(* and escalation flag, the risk check denies it with                       *)
(* escalation_required=true; the risk check never denies a decision at or   *)
(* below the ceiling.                                                       *)
C15_OverCeilingDenied ==
    [][ReturnsFrom("validateDecision") =>
          /\ RiskRank(lastOp'.decision.risk_level) > Ceiling(config.level)
                => /\ ~lastOp'.result.approved
                   /\ lastOp'.result.reason \in EarlierReasons \cup RiskReasons
          /\ lastOp'.result.reason \in RiskReasons
                => /\ RiskRank(lastOp'.decision.risk_level) > Ceiling(config.level)
                   /\ ~lastOp'.result.approved
                   /\ lastOp'.result.escalation_required = "true"]_vars

\* A high-risk platform interaction at level supervised, under the hourly
\* limit, has been denied by the risk check.
C15_Witness ==
    /\ lastOp.op = "validateDecision" /\ lastOp.returned
    /\ lastOp.level = SUPERVISED
    /\ lastOp.decision.type = PLATFORM_INTERACTION
    /\ lastOp.decision.risk_level = "high"
    /\ lastOp.result.reason = "risk_supervised"
    /\ lastOp.result.escalation_required = "true"

-----------------------------------------------------------------------------
\* The indices of the configured triggers that match a decision.
MatchingTriggers(d) ==
    {i \in 1..Len(config.escalation_triggers) :
        /\ config.escalation_triggers[i].type = SPENDING_THRESHOLD
        /\ d.estimated_cost > config.escalation_triggers[i].threshold}

FirstMatchingAction(d) ==
    config.escalation_triggers[CHOOSE i \in MatchingTriggers(d) :
                                  \A j \in MatchingTriggers(d) : i <= j].action

\* The step of a validateDecision call in which the decision has passed the
\* five policy checks and the escalation triggers are evaluated: the call is
\* not left at an earlier await, not denied by an earlier check, and not
\* resumed after its commit.
PassesPolicyChecks ==
    /\ lastOp'.op \in {"validateDecision", "resume"}
    /\ calls'[lastOp'.call].via = "validateDecision"
    /\ lastOp'.op = "resume" => calls[lastOp'.call].pc # "awaitRecord"
    /\ calls'[lastOp'.call].pc \notin {"awaitSpending", "awaitContent"}
    /\ ~(lastOp'.returned /\ lastOp'.result.reason \in EarlierReasons \cup RiskReasons)

\* A configured trigger matches a decision that has passed the policy checks.
EscalationMatched ==
    /\ PassesPolicyChecks
    /\ MatchingTriggers(lastOp'.decision) # {}

\* The number of events of a name emitted by the last step.
EventCount(name) ==
    Cardinality({i \in 1..Len(lastOp'.events) : lastOp'.events[i][1] = name})

\* The event that only the given escalation action emits.
ActionEvent(action) ==
    CASE action = PAUSE_AGENT -> "emergency_stop_triggered"
      [] action = REQUEST_APPROVAL -> "approval_requested"
      [] action = NOTIFY_OWNER -> "owner_notification"
      [] action = REDUCE_AUTONOMY -> "autonomy_level_changed"
      [] action = LOG_INCIDENT -> "guardrail_violation"

(* C16: when a decision passes the five policy checks and configured        *)
(* triggers match it, the action of the first matching trigger in           *)
(* configuration order is executed once, the escalations metric grows by    *)
(* exactly 1, and the action of no later matching trigger is executed.      *)
C16_FirstMatchingTriggerOnly ==
    [][EscalationMatched =>
          /\ metrics'.escalations = metrics.escalations + 1
          /\ \A a \in EscalationAction :
                EventCount(ActionEvent(a)) =
                    IF a = FirstMatchingAction(lastOp'.decision) THEN 1
                    \* the emergency stop changes the level, once
                    ELSE IF a = REDUCE_AUTONOMY
                            /\ FirstMatchingAction(lastOp'.decision) = PAUSE_AGENT
                    THEN 1
                    ELSE 0]_vars

\* A call has been escalated while two triggers of different actions matched
\* its decision, behind a first trigger that did not match.
C16_Witness ==
    /\ lastOp.op \in {"validateDecision", "resume"} /\ lastOp.returned
    /\ lastOp.result.reason = "escalation_trigger"
    /\ 1 \notin MatchingTriggers(lastOp.decision)
    /\ \E i, j \in MatchingTriggers(lastOp.decision) :
          config.escalation_triggers[i].action # config.escalation_triggers[j].action

(* C17: whenever an escalation trigger matches in validateDecision,         *)
(* whatever its action, the call returns approved=false with                *)
(* escalation_required=true and the decision is not committed: dailySpent   *)
(* and the hourly interaction counts are unchanged and no decision_approved *)
(* event is emitted.                                                        *)
C17_EscalationDeniesWithoutCommit ==
    [][EscalationMatched =>
          /\ lastOp'.returned
          /\ ~lastOp'.result.approved
          /\ lastOp'.result.escalation_required = "true"
          /\ currentSpending' = currentSpending
          /\ interactionCounts' = interactionCounts
          /\ EventCount("decision_approved") = 0]_vars

\* A second escalated call, of a platform interaction with a cost, a currency
\* and a platform, has returned after the owner was notified.
C17_Witness ==
    /\ lastOp.op \in {"validateDecision", "resume"} /\ lastOp.returned
    /\ lastOp.result.reason = "escalation_trigger"
    /\ lastOp.decision.type = PLATFORM_INTERACTION
    /\ lastOp.decision.estimated_cost = 60
    /\ FirstMatchingAction(lastOp.decision) = NOTIFY_OWNER
    /\ metrics.escalations = 2

-----------------------------------------------------------------------------
\* The scenario of C18: at level autonomous, with the trigger of threshold 50
\* and action ReduceAutonomy added, a decision of cost 60
\* passes the policy checks of a validateDecision call.
C18_Scenario ==
    /\ PassesPolicyChecks
    /\ config.level = AUTONOMOUS
    /\ \E i \in 1..Len(config.escalation_triggers) :
          config.escalation_triggers[i] = ReduceTrigger
    /\ lastOp'.decision.estimated_cost = 60

(* C18: with a SpendingThreshold trigger of threshold 50 and action         *)
(* ReduceAutonomy added, validateDecision at level autonomous of a decision *)
(* of estimated_cost 60 that passes the policy checks returns               *)
(* approved=false, leaves the level at semi-autonomous and increases the    *)
(* escalations metric by exactly 1.                                         *)
C18_ThresholdReducesAutonomy ==
    [][C18_Scenario =>
          /\ lastOp'.returned
          /\ ~lastOp'.result.approved
          /\ config'.level = SEMI_AUTONOMOUS
          /\ metrics'.escalations = metrics.escalations + 1]_vars

\* The first escalation of the scenario has happened.
C18_Witness ==
    /\ lastOp.op = "validateDecision" /\ lastOp.returned
    /\ lastOp.level = AUTONOMOUS
    /\ lastOp.decision.estimated_cost = 60
    /\ lastOp.result.reason = "escalation_trigger"
    /\ config.level = SEMI_AUTONOMOUS
    /\ metrics.escalations = 1

-----------------------------------------------------------------------------
\* The controller as it is, with a configuration under which validateDecision
\* approves: level autonomous, no trigger, limits out of reach.
Permissive ==
    [Self EXCEPT !.config.level = AUTONOMOUS,
                 !.config.escalation_triggers = << >>,
                 !.config.spending_limits = SpendingLimits(1000000, 1000000, 1000000),
                 !.config.interaction_rules.max_posts_per_hour = 1000000,
                 !.listeners = {}]

\* validateDecision(d) run from a state to its return, every await resumed.
RECURSIVE Completed(_, _)
Completed(o, d) ==
    IF o.pc = "done" THEN o ELSE Completed(vdResume(o.s, d, o.pc, o.check), d)

AutonomousApproval(d) == Completed(vdStart(Permissive, d), d)

(* C19: processApprovalResponse with approved=true on a pending request     *)
(* applies to the ledgers the update that validateDecision applies when it  *)
(* approves the same decision autonomously (same dailySpent, same hourly    *)
(* counts, one decision_approved event); with approved=false it leaves both *)
(* ledgers unchanged.                                                       *)
C19_ResponseCommitsAsAutonomous ==
    [][(/\ lastOp'.op = "processApprovalResponse"
        /\ lastOp'.id \in pendingApprovals
        /\ requests[lastOp'.id].status = "pending")
       => IF requests'[lastOp'.id].status = "approved"
          THEN LET auto == AutonomousApproval(requests[lastOp'.id].decision)
               IN  /\ auto.result.approved
                   /\ currentSpending' = auto.s.currentSpending
                   /\ interactionCounts' = auto.s.interactionCounts
                   /\ EventCount("decision_approved") = 1
                   /\ Cardinality({i \in 1..Len(auto.s.events) :
                                      auto.s.events[i][1] = "decision_approved"}) = 1
          ELSE /\ requests'[lastOp'.id].status = "denied"
               /\ currentSpending' = currentSpending
               /\ interactionCounts' = interactionCounts
               /\ EventCount("decision_approved") = 0]_vars

\* A second request has been approved by its response: the cost of both is
\* in dailySpent and both are counted for the platform.
C19_Witness ==
    /\ lastOp.op = "processApprovalResponse" /\ ~lastOp.threw
    /\ requests[lastOp.id].status = "approved"
    /\ currentSpending["SEI"] = 14
    /\ \E k \in DOMAIN interactionCounts : interactionCounts[k] = 2

-----------------------------------------------------------------------------
\* A validateDecision call is resumed at an await whose promise was rejected:
\* an exception was raised while it evaluated its decision.
ExceptionRaised ==
    /\ lastOp'.op = "resume"
    /\ calls[lastOp'.call].via = "validateDecision"
    /\ calls[lastOp'.call].check = Rejection

(* C20: if an exception is raised while validateDecision evaluates a        *)
(* decision, the call still returns a result with approved=false and        *)
(* escalation_required=true; it never throws or rejects and never returns   *)
(* approved=true for that decision.                                         *)
C20_ExceptionsAreDenials ==
    [][ExceptionRaised =>
          /\ ~lastOp'.threw
          /\ lastOp'.returned
          /\ ~lastOp'.result.approved
          /\ lastOp'.result.escalation_required = "true"]_vars

-----------------------------------------------------------------------------
\* The caps of a level on dailyLimit and max_posts_per_hour; << >> for none.
LevelCaps(level) ==
    CASE level = RESTRICTED -> <<10, 2>>
      [] level = SUPERVISED -> <<100, 10>>
      [] OTHER -> << >>

\* A limit after a clamp to the caps of a level: under the cap, and as it was
\* when it was under the cap already.
Clamped(before, after, level, k) ==
    IF LevelCaps(level) = << >> THEN after = before
    ELSE /\ after <= LevelCaps(level)[k]
         /\ before <= LevelCaps(level)[k] => after = before

(* C21: immediately after updateAutonomyLevel(L), from any prior state, the *)
(* level is L and the limits are within the caps of L (restricted:          *)
(* dailyLimit at most 10, max_posts_per_hour at most 2; supervised: at most *)
(* 100 and 10); limits already below the cap are not changed.               *)
C21_LevelChangeClamps ==
    [][lastOp'.op = "updateAutonomyLevel" =>
          /\ config'.level = lastOp'.newLevel
          /\ Clamped(config.spending_limits.dailyLimit,
                     config'.spending_limits.dailyLimit, lastOp'.newLevel, 1)
          /\ Clamped(config.interaction_rules.max_posts_per_hour,
                     config'.interaction_rules.max_posts_per_hour, lastOp'.newLevel, 2)]_vars

\* A change from level autonomous to supervised has brought both limits down
\* to the caps of supervised.
C21_Witness ==
    /\ lastOp.op = "updateAutonomyLevel"
    /\ lastOp.level = AUTONOMOUS /\ lastOp.newLevel = SUPERVISED
    /\ config.spending_limits.dailyLimit = 100
    /\ config.interaction_rules.max_posts_per_hour = 10

LevelRank(level) ==
    CASE level = RESTRICTED -> 1 [] level = SUPERVISED -> 2
      [] level = SEMI_AUTONOMOUS -> 3 [] level = AUTONOMOUS -> 4

\* The limits are within the caps of the current level, as a downgrade to it
\* leaves them.
WithinCaps ==
    LevelCaps(config.level) # << >> =>
        /\ config.spending_limits.dailyLimit <= LevelCaps(config.level)[1]
        /\ config.interaction_rules.max_posts_per_hour <= LevelCaps(config.level)[2]

(* C30: updateAutonomyLevel never increases dailyLimit or                   *)
(* max_posts_per_hour: a change to a higher level leaves them at the values *)
(* a downgrade has clamped them to, and only updateSpendingLimits and       *)
(* updateInteractionRules raise them.                                       *)
C30_LevelChangeNeverRaisesLimits ==
    [][/\ lastOp'.op = "updateAutonomyLevel" =>
             /\ config'.spending_limits.dailyLimit <= config.spending_limits.dailyLimit
             /\ config'.interaction_rules.max_posts_per_hour
                   <= config.interaction_rules.max_posts_per_hour
       /\ (/\ lastOp'.op = "updateAutonomyLevel"
           /\ LevelRank(lastOp'.newLevel) > LevelRank(config.level)
           /\ WithinCaps) =>
             /\ config'.spending_limits = config.spending_limits
             /\ config'.interaction_rules = config.interaction_rules
       /\ config'.spending_limits.dailyLimit > config.spending_limits.dailyLimit
             => lastOp'.op = "updateSpendingLimits"
       /\ config'.interaction_rules.max_posts_per_hour
             > config.interaction_rules.max_posts_per_hour
             => lastOp'.op = "updateInteractionRules"]_vars

\* After the emergency stop has clamped limits that were above the caps of
\* restricted, the level has been raised back and the limits stay clamped.
C30_Witness ==
    /\ lastOp.op = "updateAutonomyLevel"
    /\ lastOp.level = RESTRICTED /\ lastOp.newLevel = AUTONOMOUS
    /\ config.spending_limits.dailyLimit = 10
    /\ config.interaction_rules.max_posts_per_hour = 2

-----------------------------------------------------------------------------
\* The hourly count that the rate check reads for d has reached the limit.
RateExceeded(d) ==
    CountAt(interactionCounts, <<PlatformOf(d), HourOf(now)>>)
        >= config.interaction_rules.max_posts_per_hour

RiskReason(level) ==
    CASE level = RESTRICTED -> "risk_restricted" [] level = SUPERVISED -> "risk_supervised"
      [] level = SEMI_AUTONOMOUS -> "risk_semi" [] OTHER -> ""

\* The reason of the earliest check, in the order of C22, that d fails in the
\* current state; "approved" when it fails none.
FirstFailingCheck(d) ==
    IF d.type \notin AllowSet(config.level) THEN "type_not_allowed"
    ELSE IF d.type = FINANCIAL_TRANSACTION /\ d.estimated_cost # 0
            /\ SpendingReason(d) # ""
    THEN SpendingReason(d)
    ELSE IF d.type = PLATFORM_INTERACTION /\ RateExceeded(d) THEN "hourly_limit"
    ELSE IF d.type = CONTENT_CREATION /\ ForbiddenContent(d) THEN "forbidden_content"
    ELSE IF RiskRank(d.risk_level) > Ceiling(config.level) THEN RiskReason(config.level)
    ELSE IF MatchingTriggers(d) # {} THEN "escalation_trigger"
    ELSE "approved"

\* A step of a validateDecision call, other than its resumption after the
\* commit.
ChecksStep ==
    /\ lastOp'.op \in {"validateDecision", "resume"}
    /\ calls'[lastOp'.call].via = "validateDecision"
    /\ lastOp'.op = "resume" => calls[lastOp'.call].pc # "awaitRecord"

(* C22: validateDecision runs its checks in the order type permission,      *)
(* spending, interaction rate, content policy, risk ceiling, escalation     *)
(* triggers and stops at the first that fails: the returned reason is that  *)
(* of the earliest failing check and no effect of a later step occurs (no   *)
(* violation is recorded unless the content check is the one that fails or  *)
(* the escalation logs an incident; no escalation action runs and the       *)
(* escalations metric does not change unless all five policy checks pass;   *)
(* nothing is committed unless no check fails).  Calls are made one at a    *)
(* time.                                                                    *)
C22_EarliestFailingCheckDecides ==
    [][ChecksStep =>
          LET c == lastOp'.call
              expected == FirstFailingCheck(lastOp'.decision)
          IN  /\ calls'[c].pc \in {"done", "awaitRecord"} =>
                    IF expected = "approved"
                    THEN calls'[c].pc = "awaitRecord"
                    ELSE lastOp'.returned /\ lastOp'.result.reason = expected
              /\ metrics'.violations # metrics.violations =>
                    expected \in {"forbidden_content", "escalation_trigger"}
              /\ (\/ metrics'.escalations # metrics.escalations
                  \/ \E a \in EscalationAction \ {LOG_INCIDENT} :
                        EventCount(ActionEvent(a)) # 0) =>
                    /\ expected = "escalation_trigger"
                    /\ metrics'.escalations = metrics.escalations + 1
              /\ (\/ currentSpending' # currentSpending
                  \/ interactionCounts' # interactionCounts
                  \/ EventCount("decision_approved") # 0) =>
                    expected = "approved"]_vars

\* A critical-risk platform interaction that a trigger matches has been
\* denied at level supervised for the hourly limit, the earliest of the three
\* checks it fails.
C22_Witness ==
    /\ lastOp.op = "validateDecision" /\ lastOp.returned
    /\ lastOp.level = SUPERVISED
    /\ lastOp.result.reason = "hourly_limit"
    /\ lastOp.decision.risk_level = "critical"
    /\ MatchingTriggers(lastOp.decision) # {}
    /\ metrics.escalations = 0 /\ metrics.violations = 0

-----------------------------------------------------------------------------
(* C23: committing an approved decision adds estimated_cost to              *)
(* dailySpent[currency] only when the decision is a financial transaction   *)
(* and adds 1 to the (platform, hour) count only when it is a platform      *)
(* interaction; approving a decision of any other type leaves dailySpent    *)
(* and every hourly count unchanged.                                        *)
C23_CommitByDecisionType ==
    [][(/\ lastOp'.op \in {"validateDecision", "resume"}
        /\ EventCount("decision_approved") = 1)
       => LET d == lastOp'.decision
          IN  /\ currentSpending' =
                    IF d.type = FINANCIAL_TRANSACTION
                    THEN [currentSpending EXCEPT ![d.currency] = @ + d.estimated_cost]
                    ELSE currentSpending
              /\ interactionCounts' # interactionCounts
                    <=> d.type = PLATFORM_INTERACTION
              /\ d.type = PLATFORM_INTERACTION =>
                    CountAt(interactionCounts', <<d.platform, HourOf(now)>>)
                       = CountAt(interactionCounts, <<d.platform, HourOf(now)>>) + 1]_vars

-----------------------------------------------------------------------------
(* C24: every denial that validateDecision produces from the spending       *)
(* checks and from the content-policy check carries                         *)
(* escalation_required=true, whereas the interaction-rate denial does not.  *)
C24_SpendingAndContentDenialsEscalate ==
    [][ReturnsFrom("validateDecision") =>
          /\ lastOp'.result.reason
                \in {"per_transaction_limit", "daily_limit", "approval_threshold",
                     "forbidden_content"}
                => /\ ~lastOp'.result.approved
                   /\ lastOp'.result.escalation_required = "true"
          /\ lastOp'.result.reason = "hourly_limit"
                => /\ ~lastOp'.result.approved
                   /\ lastOp'.result.escalation_required # "true"]_vars

-----------------------------------------------------------------------------
(* C25: in every reachable state, every request returned by                 *)
(* getPendingApprovals has status pending: a request that has been          *)
(* approved, denied, timed out or cancelled is not in the pending set.      *)
C25_PendingSetIsPending ==
    \A request \in getPendingApprovals(Self) : request.status = "pending"

-----------------------------------------------------------------------------
\* The amount of a payment is over a spending limit.
OverALimit(amount) ==
    \/ amount > config.spending_limits.perTransactionLimit
    \/ amount > config.spending_limits.approvalRequiredAbove
    \/ \E currency \in Currencies :
          currentSpending[currency] + amount > config.spending_limits.dailyLimit

(* C26: validateAction never returns true for a payment action whose amount *)
(* exceeds perTransactionLimit or approvalRequiredAbove, or whose amount    *)
(* added to dailySpent exceeds dailyLimit, at any autonomy level.           *)
C26_PaymentOverLimitRefused ==
    [][(/\ ReturnsFrom("validateAction")
        /\ calls'[lastOp'.call].action.type = "payment"
        /\ OverALimit(calls'[lastOp'.call].action.amount))
       => ~lastOp'.result.approved]_vars

-----------------------------------------------------------------------------
(* C27: in a sequential execution in which the operator changes neither the *)
(* spending limits nor the level, dailySpent[c] is at most dailyLimit for   *)
(* every currency c after any sequence of validateDecision, validateAction, *)
(* requestApproval and processApprovalResponse calls.                       *)
C27_DailySpentWithinDailyLimit ==
    \A c \in Currencies : currentSpending[c] <= config.spending_limits.dailyLimit

-----------------------------------------------------------------------------
\* The currency whose dailySpent entry validateSpending reads for d.
CurrencyOf(d) == IF d.currency = "" THEN "SEI" ELSE d.currency

(* C28: the ledger key that a policy check reads is the key the commit of   *)
(* the same decision writes: an approved financial transaction of cost c    *)
(* increases by c the dailySpent entry of the currency its daily-limit      *)
(* check read, and an approved platform interaction increases by 1 the      *)
(* hour-bucket count of the platform its rate check read, the default       *)
(* currency and the default platform included.                              *)
C28_CommitWritesTheKeyRead ==
    [][(/\ lastOp'.op \in {"validateDecision", "resume"}
        /\ EventCount("decision_approved") = 1)
       => LET d == lastOp'.decision
          IN  /\ d.type = FINANCIAL_TRANSACTION =>
                    currentSpending'[CurrencyOf(d)]
                       = currentSpending[CurrencyOf(d)] + d.estimated_cost
              /\ d.type = PLATFORM_INTERACTION =>
                    CountAt(interactionCounts', <<PlatformOf(d), HourOf(now)>>)
                       = CountAt(interactionCounts, <<PlatformOf(d), HourOf(now)>>) + 1]_vars

-----------------------------------------------------------------------------
(* C29: the main loop of AgentCore executes a decision only when            *)
(* validateDecision returned approved=true for it; a decision whose result  *)
(* has approved=false is escalated and never executed.                      *)
C29_OnlyApprovedDecisionsExecuted ==
    \A c \in DOMAIN calls :
        calls[c].via = "startMainLoop" =>
            /\ calls[c].pc = "executeDecision" => calls[c].result.approved
            /\ (/\ calls[c].pc \in {"executeDecision", "escalateDecision"}
                /\ ~calls[c].result.approved)
                  => calls[c].pc = "escalateDecision"

====
